---- MODULE Spec2Model ----
(***************************************************************************)
(* Model of the hyperpro sticker application: the cart (Cart in            *)
(* js/error-handler.js), its validation helpers (SecurityUtils), the batch *)
(* label generator (BatchZBLGenerator), the single-label generator         *)
(* (ZBLGenerator) and the front-end handlers that hand generated documents *)
(* to a download, print or PDF sink.                                       *)
(*                                                                         *)
(* Text is a sequence of one-character strings.  A spreadsheet cell is a   *)
(* record [k, s, n]: k = "str" with its characters in s, k = "num" with    *)
(* its value in n, or k = "obj" for a JSON object that has no callable     *)
(* toString (only a tampered localStorage snapshot can hold one).          *)
(***************************************************************************)
EXTENDS Integers, Sequences, FiniteSets, TLC

VARIABLES
    items,      \* Cart.items: the ordered cart entries
    nextId,     \* Cart.nextId
    storage,    \* localStorage[CART_CONFIG.STORAGE_KEY]
    listeners,  \* Cart.listeners: one behaviour ("ok" / "throws") per callback
    op,         \* the operation that ran last and the branch it took
    ret,        \* what that operation returned
    notified,   \* the listener indices that operation invoked, in order
    generated,  \* the outcome of the generateBatch call that operation made
    delivered,  \* what that operation handed to a sink (download, print, PDF)
    timers,     \* the setTimeout callbacks not yet run, in firing order
    catalog,    \* excelParser.data: the records of the catalog, in file order
    app,        \* the page: how far initializeApp came and what it made
    modules     \* printRouter, printerManager and settingsStorage

vars == <<items, nextId, storage, listeners, op, ret, notified, generated,
          delivered, timers, catalog, app, modules>>

\* ------------------------------------------------------------------ bounds
\* CART_CONFIG.MAX_ITEMS is 500 and CART_CONFIG.MAX_ID is 999999 in the
\* source; the model keeps their roles (MAX_ITEMS < MAX_ID) at a checkable
\* scale.
MAX_ITEMS == 2
MAX_ID == 3
MaxListeners == 3
\* The setTimeout callbacks that may be pending at once.
MaxTimers == 1
\* ProductSearch.search keeps the first 50 results in the source.
MAX_RESULTS == 2
\* The records of the catalogs searched.
MaxCatalog == 3
\* The longest text sized: past the last threshold (250) of every role.
MaxTextLen == 260

\* SecurityUtils.validateQuantity
MIN_QTY == 1
MAX_QTY == 99
STORAGE_VERSION == 1

\* The element of a one-element set.  Only({f(x) : x \in {e}}) is f(e) with e
\* evaluated once, however often f uses it.
Only(S) == CHOOSE x \in S : TRUE

\* ------------------------------------------------------------ JS values
Str(s) == [k |-> "str", s |-> s, n |-> 0]
Num(n) == [k |-> "num", s |-> <<>>, n |-> n]
BadObj == [k |-> "obj", s |-> <<>>, n |-> 0]
EmptyCell == Str(<<>>)
\* A Date cell: an object with a time n, and ref telling which object it is
\* (i > 0: the one record i of the catalog holds, 0: one made later).
DateCell(time, ref) == [k |-> "date", s |-> <<>>, n |-> time, ref |-> ref]

\* JavaScript truthiness of a cell: '' and 0 are falsy, objects are truthy.
Truthy(v) ==
    CASE v.k = "str" -> v.s # <<>>
      [] v.k = "num" -> v.n # 0
      [] OTHER -> TRUE

\* a || b
OrElse(a, b) == IF Truthy(a) THEN a ELSE b

DigitChars == <<"0", "1", "2", "3", "4", "5", "6", "7", "8", "9">>

RECURSIVE NatToChars(_)
NatToChars(n) ==
    IF n < 10 THEN <<DigitChars[n + 1]>>
    ELSE NatToChars(n \div 10) \o <<DigitChars[(n % 10) + 1]>>

\* String(v) / v.toString(): throws a TypeError for a BadObj.
ToStringThrows(v) == v.k = "obj"
ToChars(v) ==
    CASE v.k = "str" -> v.s
      [] v.k = "num" -> NatToChars(v.n)
      [] v.k = "date" -> <<"D">> \o NatToChars(v.n)
      [] OTHER -> <<>>

IsSpace(c) == c \in {" ", "\t", "\n"}

RECURSIVE TrimLeft(_)
TrimLeft(s) ==
    IF s # <<>> /\ IsSpace(Head(s)) THEN TrimLeft(Tail(s)) ELSE s

RECURSIVE TrimRight(_)
TrimRight(s) ==
    IF s # <<>> /\ IsSpace(s[Len(s)]) THEN TrimRight(SubSeq(s, 1, Len(s) - 1)) ELSE s

\* String.prototype.trim
trim(s) == TrimRight(TrimLeft(s))

\* ----------------------------------------------------------- SecurityUtils
validateRowData_noTrim(rowData) ==
    IF ~rowData.isObject
    THEN [valid |-> FALSE, threw |-> FALSE, errors |-> <<"row">>]
    ELSE LET hasProductCode == Truthy(rowData.C) \/ Truthy(rowData.D) \/ Truthy(rowData.E)
             brandName == ToChars(OrElse(rowData.F, EmptyCell))
             modelType == ToChars(OrElse(rowData.G, EmptyCell))
             errors == (IF ~hasProductCode THEN <<"code">> ELSE <<>>)
                       \o (IF brandName = <<>> THEN <<"brand">> ELSE <<>>)
                       \o (IF modelType = <<>> THEN <<"model">> ELSE <<>>)
         IN  [valid |-> errors = <<>>,
              threw |-> ToStringThrows(rowData.F) \/ ToStringThrows(rowData.G),
              errors |-> errors]

\* valid: at least one truthy code (C, D, E), a brand (F) and a model (G) that
\* are non-empty after toString().trim(); threw: toString() raised.
validateRowData(rowData) ==
    IF ~rowData.isObject
    THEN [valid |-> FALSE, threw |-> FALSE, errors |-> <<"row">>]
    ELSE LET hasProductCode == Truthy(rowData.C) \/ Truthy(rowData.D) \/ Truthy(rowData.E)
             brandName == trim(ToChars(OrElse(rowData.F, EmptyCell)))
             modelType == trim(ToChars(OrElse(rowData.G, EmptyCell)))
             errors == (IF ~hasProductCode THEN <<"code">> ELSE <<>>)
                       \o (IF brandName = <<>> THEN <<"brand">> ELSE <<>>)
                       \o (IF modelType = <<>> THEN <<"model">> ELSE <<>>)
         IN  [valid |-> errors = <<>>,
              threw |-> ToStringThrows(rowData.F) \/ ToStringThrows(rowData.G),
              errors |-> errors]

validTypes == {"fork", "shock", "combi"}

validateKitType(kitType) == kitType \in validTypes

\* A quantity argument is [t, v]: t = "num" with v the value in tenths (so
\* 25 is 2.5), t = "inf" with v = 1 or -1 for +/-Infinity, t = "nan", or
\* t = "text" for a non-number.  Math.floor of v tenths is v \div 10.
\* A stored quantity is a number of the same form.
QNum(tenths) == [t |-> "num", v |-> tenths]
JsInt(n) == QNum(10 * n)
NaN == [t |-> "nan", v |-> 0]

\* n * q for an integer n and a number or text q: a text that is not numeric
\* converts to NaN.
Times(n, q) ==
    IF q.t = "num" THEN QNum(n * q.v)
    ELSE IF q.t = "inf" /\ n # 0 THEN [t |-> "inf", v |-> IF n > 0 THEN q.v ELSE -q.v]
    ELSE NaN

\* a + b for two numbers.
Plus(a, b) ==
    IF a.t = "num" /\ b.t = "num" THEN QNum(a.v + b.v)
    ELSE IF a.t = "inf" /\ b.t = "num" THEN a
    ELSE IF a.t = "num" /\ b.t = "inf" THEN b
    ELSE IF a.t = "inf" /\ b.t = "inf" /\ a.v = b.v THEN a
    ELSE NaN

\* The number of passes of for (let i = 0; i < quantity; i++) for a quantity
\* other than +Infinity: i < quantity is false for NaN and for a text that is
\* not numeric.
LoopCount(quantity) ==
    IF quantity.t = "num" /\ quantity.v > 0 THEN (quantity.v + 9) \div 10 ELSE 0
validateQuantity_noUpper(quantity) ==
    IF quantity.t \in {"nan", "text"}
    THEN [valid |-> FALSE, clamped |-> MIN_QTY, warning |-> TRUE]
    ELSE IF quantity.t = "inf"
    THEN [valid |-> FALSE, clamped |-> IF quantity.v < 0 THEN MIN_QTY ELSE MAX_QTY + 1,
          warning |-> TRUE]
    ELSE LET floored == quantity.v \div 10
             clamped == IF floored < MIN_QTY THEN MIN_QTY ELSE floored
         IN  [valid |-> clamped * 10 = quantity.v,
              clamped |-> clamped,
              warning |-> floored < MIN_QTY]

validateQuantity(quantity) ==
    IF quantity.t \in {"nan", "text"}
    THEN [valid |-> FALSE, clamped |-> MIN_QTY, warning |-> TRUE]
    ELSE IF quantity.t = "inf"
    THEN [valid |-> FALSE, clamped |-> IF quantity.v < 0 THEN MIN_QTY ELSE MAX_QTY,
          warning |-> TRUE]
    ELSE LET floored == quantity.v \div 10
             clamped == IF floored < MIN_QTY THEN MIN_QTY
                        ELSE IF floored > MAX_QTY THEN MAX_QTY
                        ELSE floored
         IN  [valid |-> clamped * 10 = quantity.v,
              clamped |-> clamped,
              warning |-> floored < MIN_QTY \/ floored > MAX_QTY]

\* The names of the cells of a record.
Columns == {"C", "D", "E", "F", "G", "H", "I", "J", "K", "L", "M", "N", "P", "Q",
            "R", "S", "T", "V"}

\* A new object whose properties hold the values of obj, not clones of them.
deepClone_shallow(obj) == IF ~obj.isObject THEN obj ELSE [obj EXCEPT !.ref = 0]

\* deepClone of a cell: a primitive is returned as it is, a Date becomes a
\* new Date of the same time, an object a new object.
deepCloneCell(cell) == IF cell.k = "date" THEN [cell EXCEPT !.ref = 0] ELSE cell

\* null is returned as it is; a record becomes a new object (ref 0) with the
\* same own properties, each cloned in turn.
deepClone(obj) ==
    IF ~obj.isObject THEN obj
    ELSE [f \in DOMAIN obj |->
            IF f \in Columns THEN deepCloneCell(obj[f])
            ELSE IF f = "ref" THEN 0
            ELSE obj[f]]

\* ------------------------------------------------------------------- Cart
STICKER_RULES_combiAsFork ==
    [fork  |-> [big |-> 1, smallFork |-> 2, smallShock |-> 0],
     shock |-> [big |-> 1, smallFork |-> 0, smallShock |-> 1],
     combi |-> [big |-> 1, smallFork |-> 2, smallShock |-> 0]]

STICKER_RULES ==
    [fork  |-> [big |-> 1, smallFork |-> 2, smallShock |-> 0],
     shock |-> [big |-> 1, smallFork |-> 0, smallShock |-> 1],
     combi |-> [big |-> 1, smallFork |-> 2, smallShock |-> 1]]

NoBatch == [kind |-> "none"]

NoStorage ==
    [present |-> FALSE, parses |-> TRUE, version |-> 0, isArray |-> FALSE,
     items |-> <<>>, nextId |-> 0]

\* What JSON.stringify and JSON.parse make of a cell: a Date becomes its text,
\* any other cell stays.
jsonCell(cell) == IF cell.k = "date" THEN Str(ToChars(cell)) ELSE cell

\* What they make of an entry: new objects (ref 0) with the cells as above.
jsonItem(item) ==
    [item EXCEPT !.rowData = [f \in DOMAIN item.rowData |->
                                IF f \in Columns THEN jsonCell(item.rowData[f])
                                ELSE IF f = "ref" THEN 0
                                ELSE item.rowData[f]],
                 !.productCode = jsonCell(item.productCode)]

\* A mutant of saveToStorage: the id counter is left out of cartData.
saveToStorage_noCounter(its, nid) ==
    [present |-> TRUE, parses |-> TRUE, version |-> STORAGE_VERSION, isArray |-> TRUE,
     items |-> [i \in 1..Len(its) |-> jsonItem(its[i])], nextId |-> 0]

\* The cartData object written by saveToStorage (its timestamp left out), as
\* JSON.parse reads it back.
saveToStorage(its, nid) ==
    [present |-> TRUE, parses |-> TRUE, version |-> STORAGE_VERSION, isArray |-> TRUE,
     items |-> [i \in 1..Len(its) |-> jsonItem(its[i])], nextId |-> nid]

\* The callbacks invoked from index i on when an exception of a callback is
\* not caught: it leaves forEach.
RECURSIVE notifyFrom_noCatch(_)
notifyFrom_noCatch(i) ==
    IF i > Len(listeners) THEN <<>>
    ELSE IF listeners[i] = "throws" THEN <<i>>
    ELSE <<i>> \o notifyFrom_noCatch(i + 1)

notifyListeners_noCatch == notifyFrom_noCatch(1)

\* The callbacks invoked when forEach runs from the last listener to the first.
notifyListeners_lastFirst == [k \in 1..Len(listeners) |-> Len(listeners) + 1 - k]

\* The callbacks listeners.forEach invokes from index i on: each call sits in
\* a try/catch, so after a callback that throws the next one is called as
\* after one that returns.
RECURSIVE notifyFrom(_)
notifyFrom(i) ==
    IF i > Len(listeners) THEN <<>>
    ELSE IF listeners[i] = "throws" THEN <<i>> \o notifyFrom(i + 1)
    ELSE <<i>> \o notifyFrom(i + 1)

\* The indices of the callbacks notifyListeners invokes, in order.
notifyListeners == notifyFrom(1)

cartIsFull_offByOne(its) == Len(its) > MAX_ITEMS

cartIsFull(its) == Len(its) >= MAX_ITEMS

\* The id the next item gets: nextId, or 1 once nextId has passed MAX_ID.
idAfterOverflowCheck(nid) == IF nid > MAX_ID THEN 1 ELSE nid

NA == Str(<<"N", "/", "A">>)

productCodeFor(kitType, clonedRowData) ==
    CASE kitType = "fork"  -> OrElse(clonedRowData.C, NA)
      [] kitType = "shock" -> OrElse(clonedRowData.D, NA)
      [] kitType = "combi" -> OrElse(clonedRowData.E, NA)
      [] OTHER -> NA

\* (F || '') + ' ' + (G || ''), trimmed, or 'N/A' when that is empty
productNameFor(clonedRowData) ==
    LET name == trim(ToChars(OrElse(clonedRowData.F, EmptyCell)) \o <<" ">>
                     \o ToChars(OrElse(clonedRowData.G, EmptyCell)))
    IN  IF name = <<>> THEN NA.s ELSE name

Null == [kind |-> "null"]

rejectAdd_sideEffect(branch) ==
    /\ op' = [name |-> "add", branch |-> branch]
    /\ ret' = Null
    /\ nextId' = idAfterOverflowCheck(nextId)
    /\ storage' = saveToStorage(items, nextId')
    /\ notified' = notifyListeners
    /\ delivered' = <<>> /\ generated' = NoBatch /\ UNCHANGED <<timers, catalog, app, modules>>
    /\ UNCHANGED <<items, listeners>>

\* Every rejecting branch of addToCart: log, return null.
rejectAdd(branch) ==
    /\ op' = [name |-> "add", branch |-> branch]
    /\ ret' = Null
    /\ notified' = <<>>
    /\ delivered' = <<>> /\ generated' = NoBatch /\ UNCHANGED <<timers, catalog, app, modules>>
    /\ UNCHANGED <<items, nextId, storage, listeners>>

addToCart(rowData, kitType, quantity) ==
    LET validation == validateRowData(rowData) IN
    IF validation.threw
    THEN /\ op' = [name |-> "add", branch |-> "threw"]
         /\ ret' = [kind |-> "throw"]
         /\ notified' = <<>>
         /\ delivered' = <<>> /\ generated' = NoBatch /\ UNCHANGED <<timers, catalog, app, modules>>
         /\ UNCHANGED <<items, nextId, storage, listeners>>
    ELSE IF ~validation.valid THEN rejectAdd("row")
    ELSE IF ~validateKitType(kitType) THEN rejectAdd("kit")
    ELSE LET finalQuantity == validateQuantity(quantity).clamped IN
         IF cartIsFull(items) THEN rejectAdd("full")
         ELSE LET id == idAfterOverflowCheck(nextId)
                  clonedRowData == deepClone(rowData)
                  item == [id |-> id,
                           rowData |-> clonedRowData,
                           kitType |-> kitType,
                           quantity |-> JsInt(finalQuantity),
                           productCode |-> productCodeFor(kitType, clonedRowData),
                           productName |-> productNameFor(clonedRowData)]
              IN  /\ items' = Append(items, item)
                  /\ nextId' = id + 1
                  /\ storage' = saveToStorage(items', nextId')
                  /\ notified' = notifyListeners
                  /\ op' = [name |-> "add", branch |-> "ok"]
                  /\ ret' = [kind |-> "item", val |-> item]
                  /\ delivered' = <<>> /\ generated' = NoBatch /\ UNCHANGED <<timers, catalog, app, modules>>
                  /\ UNCHANGED listeners

removeFromCart(itemId) ==
    LET Keep(item) == item.id # itemId
        kept == SelectSeq(items, Keep)
    IN  /\ items' = kept
        /\ delivered' = <<>> /\ generated' = NoBatch /\ UNCHANGED <<timers, catalog, app, modules>>
        /\ UNCHANGED <<nextId, listeners>>
        /\ IF Len(kept) < Len(items)
           THEN /\ storage' = saveToStorage(kept, nextId)
                /\ notified' = notifyListeners
                /\ op' = [name |-> "remove", branch |-> "ok"]
                /\ ret' = [kind |-> "bool", val |-> TRUE]
           ELSE /\ notified' = <<>>
                /\ op' = [name |-> "remove", branch |-> "miss"]
                /\ ret' = [kind |-> "bool", val |-> FALSE]
                /\ UNCHANGED storage

\* items.find(item => item.id === itemId): the index of the first match, or 0.
findIndex(its, itemId) ==
    IF \E i \in 1..Len(its) : its[i].id = itemId
    THEN CHOOSE i \in 1..Len(its) :
            /\ its[i].id = itemId
            /\ \A j \in 1..(i - 1) : its[j].id # itemId
    ELSE 0

updateQuantity(itemId, newQuantity) ==
    LET finalQuantity == validateQuantity(newQuantity).clamped
        i == findIndex(items, itemId)
    IN  /\ delivered' = <<>> /\ generated' = NoBatch /\ UNCHANGED <<timers, catalog, app, modules>>
        /\ UNCHANGED <<nextId, listeners>>
        /\ IF i # 0
           THEN /\ items' = [items EXCEPT ![i].quantity = JsInt(finalQuantity)]
                /\ storage' = saveToStorage(items', nextId)
                /\ notified' = notifyListeners
                /\ op' = [name |-> "update", branch |-> "ok"]
                /\ ret' = [kind |-> "bool", val |-> TRUE]
           ELSE /\ notified' = <<>>
                /\ op' = [name |-> "update", branch |-> "miss"]
                /\ ret' = [kind |-> "bool", val |-> FALSE]
                /\ UNCHANGED <<items, storage>>

clearCart ==
    /\ items' = <<>>
    /\ storage' = saveToStorage(<<>>, nextId)
    /\ notified' = notifyListeners
    /\ op' = [name |-> "clear", branch |-> "ok"]
    /\ ret' = [kind |-> "void"]
    /\ delivered' = <<>> /\ generated' = NoBatch /\ UNCHANGED <<timers, catalog, app, modules>>
    /\ UNCHANGED <<nextId, listeners>>

addListener(callback) ==
    /\ Len(listeners) < MaxListeners
    /\ listeners' = Append(listeners, callback)
    /\ op' = [name |-> "addListener", branch |-> "ok"]
    /\ ret' = [kind |-> "void"]
    /\ notified' = <<>>
    /\ delivered' = <<>> /\ generated' = NoBatch /\ UNCHANGED <<timers, catalog, app, modules>>
    /\ UNCHANGED <<items, nextId, storage>>

\* ------------------------------------------------ Cart: totals and restore
getItems == items

calculateItemStickers_alwaysFork(item) ==
    LET rules == STICKER_RULES["fork"]
    IN  [big |-> Times(rules.big, item.quantity),
         smallFork |-> Times(rules.smallFork, item.quantity),
         smallShock |-> Times(rules.smallShock, item.quantity),
         total |-> Times(rules.big + rules.smallFork + rules.smallShock, item.quantity)]

\* The rule of the item's kit type (of fork when the kit type is not valid)
\* times its quantity.
calculateItemStickers(item) ==
    LET kitType == IF validateKitType(item.kitType) THEN item.kitType ELSE "fork"
        rules == STICKER_RULES[kitType]
    IN  [big |-> Times(rules.big, item.quantity),
         smallFork |-> Times(rules.smallFork, item.quantity),
         smallShock |-> Times(rules.smallShock, item.quantity),
         total |-> Times(rules.big + rules.smallFork + rules.smallShock, item.quantity)]

\* items.forEach(item => total += calculateItemStickers(item)[field])
RECURSIVE totalOf(_, _)
totalOf(its, field) ==
    IF its = <<>> THEN JsInt(0)
    ELSE Plus(totalOf(SubSeq(its, 1, Len(its) - 1), field),
              calculateItemStickers(its[Len(its)])[field])

getCartSummary(its) ==
    LET totalBig == totalOf(its, "big")
        totalSmallFork == totalOf(its, "smallFork")
        totalSmallShock == totalOf(its, "smallShock")
    IN  [totalItems |-> Len(its),
         totalBig |-> totalBig,
         totalSmallFork |-> totalSmallFork,
         totalSmallShock |-> totalSmallShock,
         totalSmall |-> Plus(totalSmallFork, totalSmallShock),
         grandTotal |-> Plus(Plus(totalBig, totalSmallFork), totalSmallShock)]

\* The filter of loadFromStorage on one stored entry.
restorable(item) ==
    /\ item.rowData.isObject
    /\ validateKitType(item.kitType)
    /\ validateRowData(item.rowData).valid

\* [items, nextId, storage] after loadFromStorage in a new cart: nothing
\* stored leaves the cart empty; a text that does not parse, another version,
\* or an exception while filtering clears the storage and leaves the cart
\* empty; otherwise the entries that pass the filter are taken, with the
\* stored nextId (1 when it is missing or 0).
loadFromStorage(stored) ==
    LET empty == [items |-> <<>>, nextId |-> 1, storage |-> stored, branch |-> "none"]
        cleared == [empty EXCEPT !.storage = NoStorage, !.branch = "cleared"]
    IN  IF ~stored.present THEN empty
        ELSE IF ~stored.parses THEN cleared
        ELSE IF stored.version # STORAGE_VERSION THEN cleared
        ELSE IF ~stored.isArray THEN [empty EXCEPT !.branch = "noArray"]
        ELSE IF \E i \in 1..Len(stored.items) :
                    /\ \A j \in 1..(i - 1) : ~validateRowData(stored.items[j].rowData).threw
                    /\ stored.items[i].rowData.isObject
                    /\ validateKitType(stored.items[i].kitType)
                    /\ validateRowData(stored.items[i].rowData).threw
             THEN cleared
        ELSE [items |-> SelectSeq(stored.items, restorable),
              nextId |-> IF stored.nextId = 0 THEN 1 ELSE stored.nextId,
              storage |-> stored,
              branch |-> "restored"]

\* --------------------------------------------------------- ProductSearch
LowerChars == <<"a", "b", "c", "d", "e", "f", "g", "h", "i", "j", "k", "l", "m", "n", "o", "p", "q", "r", "s", "t", "u", "v", "w", "x", "y", "z">>
UpperChars == <<"A", "B", "C", "D", "E", "F", "G", "H", "I", "J", "K", "L", "M", "N", "O", "P", "Q", "R", "S", "T", "U", "V", "W", "X", "Y", "Z">>

\* String.prototype.toUpperCase and toLowerCase on the letters a..z, A..Z;
\* every other character stays.
toUpperCase(s) ==
    [i \in 1..Len(s) |->
        IF \E k \in 1..26 : LowerChars[k] = s[i]
        THEN UpperChars[CHOOSE k \in 1..26 : LowerChars[k] = s[i]]
        ELSE s[i]]

toLowerCase(s) ==
    [i \in 1..Len(s) |->
        IF \E k \in 1..26 : UpperChars[k] = s[i]
        THEN LowerChars[CHOOSE k \in 1..26 : UpperChars[k] = s[i]]
        ELSE s[i]]

\* String.prototype.includes
includes(text, part) ==
    \E k \in 0..(Len(text) - Len(part)) : SubSeq(text, k + 1, k + Len(part)) = part

\* (row.C || '').toString()
codeText(cell) == ToChars(OrElse(cell, EmptyCell))

NoMatch == [kind |-> "null"]
Match(row, kitType) == [kind |-> "match", match |-> row, kitType |-> kitType]

\* A scan that looks through column C of every record, then D, then E.
searchExact_columnFirst(data, query) ==
    IF query = <<>> \/ trim(query) = <<>> THEN NoMatch
    ELSE LET normalized == toUpperCase(trim(query))
             Hit(i, f) == toUpperCase(codeText(data[i][f])) = normalized
             First(f) == CHOOSE i \in 1..Len(data) :
                            Hit(i, f) /\ \A j \in 1..(i - 1) : ~Hit(j, f)
         IN  IF \E i \in 1..Len(data) : Hit(i, "C") THEN Match(data[First("C")], "fork")
             ELSE IF \E i \in 1..Len(data) : Hit(i, "D") THEN Match(data[First("D")], "shock")
             ELSE IF \E i \in 1..Len(data) : Hit(i, "E") THEN Match(data[First("E")], "combi")
             ELSE NoMatch

\* for (const row of this.data) from record i on: C, then D, then E of the
\* record against the normalized query, the first equal one returns.
RECURSIVE searchExactFrom(_, _, _)
searchExactFrom(data, normalized, i) ==
    IF i > Len(data) THEN NoMatch
    ELSE LET row == data[i] IN
         IF toUpperCase(codeText(row.C)) = normalized THEN Match(row, "fork")
         ELSE IF toUpperCase(codeText(row.D)) = normalized THEN Match(row, "shock")
         ELSE IF toUpperCase(codeText(row.E)) = normalized THEN Match(row, "combi")
         ELSE searchExactFrom(data, normalized, i + 1)

searchExact(data, query) ==
    IF query = <<>> \/ trim(query) = <<>> THEN NoMatch
    ELSE searchExactFrom(data, toUpperCase(trim(query)), 1)

\* The filter of search on one record.
searchFilter(row, lowerQuery) ==
    \/ includes(toLowerCase(codeText(row.C)), lowerQuery)
    \/ includes(toLowerCase(codeText(row.D)), lowerQuery)
    \/ includes(toLowerCase(codeText(row.E)), lowerQuery)

\* The filter without the slice.
search_noLimit(data, query) ==
    IF query = <<>> \/ Len(trim(query)) < 2 THEN <<>>
    ELSE LET lowerQuery == trim(toLowerCase(query))
             Keep(row) == searchFilter(row, lowerQuery)
         IN  SelectSeq(data, Keep)

search(data, query) ==
    IF query = <<>> \/ Len(trim(query)) < 2 THEN <<>>
    ELSE LET lowerQuery == trim(toLowerCase(query))
             Keep(row) == searchFilter(row, lowerQuery)
             results == SelectSeq(data, Keep)
         IN  SubSeq(results, 1, IF Len(results) < MAX_RESULTS THEN Len(results)
                                ELSE MAX_RESULTS)

\* ------------------------------------------------------------- templates
\* The three templates initializeApp fetches, cut down to one label each:
\* ZPL commands around the placeholders the label prints.
bigTemplate == <<"^", "X", "A", "^", "C", "F", "0", ",", "{", "B", "R", "A", "N", "D", "_", "F", "O", "N", "T", "_", "S", "I", "Z", "E", "}", "^", "F", "D", "{", "B", "R", "A", "N", "D", "_", "N", "A", "M", "E", "}", "^", "F", "S", "^", "F", "D", "{", "N", "O", "T", "E", "S", "}", "^", "F", "S", "^", "X", "Z">>
smallForkTemplate == <<"^", "X", "A", "^", "F", "D", "{", "F", "O", "R", "K", "C", "O", "D", "E", "}", "^", "F", "S", "^", "X", "Z">>
smallShockTemplate == <<"^", "X", "A", "^", "F", "D", "{", "S", "H", "O", "C", "K", "C", "O", "D", "E", "}", "^", "F", "S", "^", "X", "Z">>
templates == [big |-> bigTemplate, smallFork |-> smallForkTemplate,
              smallShock |-> smallShockTemplate]

\* The characters of each variable name.
KeyChars ==
    [BRAND_NAME |-> <<"B", "R", "A", "N", "D", "_", "N", "A", "M", "E">>,
     MODEL_TYPE |-> <<"M", "O", "D", "E", "L", "_", "T", "Y", "P", "E">>,
     YEAR |-> <<"Y", "E", "A", "R">>,
     FORK_SPRING |-> <<"F", "O", "R", "K", "_", "S", "P", "R", "I", "N", "G">>,
     SHOCK_SPRING |-> <<"S", "H", "O", "C", "K", "_", "S", "P", "R", "I", "N", "G">>,
     FORKCODE |-> <<"F", "O", "R", "K", "C", "O", "D", "E">>,
     SHOCKCODE |-> <<"S", "H", "O", "C", "K", "C", "O", "D", "E">>,
     COMBICODE |-> <<"C", "O", "M", "B", "I", "C", "O", "D", "E">>,
     OIL_TYPE |-> <<"O", "I", "L", "_", "T", "Y", "P", "E">>,
     OIL_LEVEL |-> <<"O", "I", "L", "_", "L", "E", "V", "E", "L">>,
     FORK_PRELOAD |-> <<"F", "O", "R", "K", "_", "P", "R", "E", "L", "O", "A", "D">>,
     SHOCK_PRELOAD |-> <<"S", "H", "O", "C", "K", "_", "P", "R", "E", "L", "O", "A", "D">>,
     FORK_SAG |-> <<"F", "O", "R", "K", "_", "S", "A", "G">>,
     SHOCK_SAG |-> <<"S", "H", "O", "C", "K", "_", "S", "A", "G">>,
     FORK_COMPRESSION |-> <<"F", "O", "R", "K", "_", "C", "O", "M", "P", "R", "E", "S", "S", "I", "O", "N">>,
     SHOCK_COMPRESSION |-> <<"S", "H", "O", "C", "K", "_", "C", "O", "M", "P", "R", "E", "S", "S", "I", "O", "N">>,
     BRAND_FONT_SIZE |-> <<"B", "R", "A", "N", "D", "_", "F", "O", "N", "T", "_", "S", "I", "Z", "E">>,
     MODEL_FONT_SIZE |-> <<"M", "O", "D", "E", "L", "_", "F", "O", "N", "T", "_", "S", "I", "Z", "E">>,
     KIT_FONT_SIZE |-> <<"K", "I", "T", "_", "F", "O", "N", "T", "_", "S", "I", "Z", "E">>,
     BRAND_FONT_SIZE_SMALL |-> <<"B", "R", "A", "N", "D", "_", "F", "O", "N", "T", "_", "S", "I", "Z", "E", "_", "S", "M", "A", "L", "L">>,
     MODEL_FONT_SIZE_SMALL |-> <<"M", "O", "D", "E", "L", "_", "F", "O", "N", "T", "_", "S", "I", "Z", "E", "_", "S", "M", "A", "L", "L">>,
     NOTES |-> <<"N", "O", "T", "E", "S">>,
     NOTES_FONT_SIZE |-> <<"N", "O", "T", "E", "S", "_", "F", "O", "N", "T", "_", "S", "I", "Z", "E">>]

NONE == Str(<<"N", "O", "N", "E">>)

\* --------------------------------------------------- text.length and sizes
\* text.length is undefined for a number or an object; every comparison with
\* undefined is false, so the size functions fall through to their last line.
HasLength(cell) == cell.k = "str"

\* The comparisons of calculateModelFontSize made with < where it has <=.
calculateModelFontSize_strict(text) ==
    LET len == Len(text.s) IN
    IF ~HasLength(text) THEN 18
    ELSE IF len < 25 THEN 50
    ELSE IF len < 40 THEN 40
    ELSE IF len < 60 THEN 32
    ELSE IF len < 80 THEN 26
    ELSE IF len < 100 THEN 22
    ELSE IF len < 130 THEN 20
    ELSE 18

\* calculateNotesFontSize with the sizes of 160 and 200 exchanged.
calculateNotesFontSize_swapped(text) ==
    LET len == Len(text.s) IN
    IF len <= 80 THEN 26
    ELSE IF len <= 120 THEN 24
    ELSE IF len <= 160 THEN 20
    ELSE IF len <= 200 THEN 22
    ELSE IF len <= 250 THEN 18
    ELSE 16

calculateBrandFontSize(text) ==
    LET len == Len(text.s) IN
    IF ~HasLength(text) THEN 25
    ELSE IF len <= 25 THEN 50
    ELSE IF len <= 40 THEN 40
    ELSE IF len <= 60 THEN 35
    ELSE IF len <= 80 THEN 30
    ELSE 25

calculateModelFontSize(text) ==
    LET len == Len(text.s) IN
    IF ~HasLength(text) THEN 18
    ELSE IF len <= 25 THEN 50
    ELSE IF len <= 40 THEN 40
    ELSE IF len <= 60 THEN 32
    ELSE IF len <= 80 THEN 26
    ELSE IF len <= 100 THEN 22
    ELSE IF len <= 130 THEN 20
    ELSE 18

calculateBrandFontSizeSmall(text) ==
    LET len == Len(text.s) IN
    IF ~HasLength(text) THEN 18
    ELSE IF len <= 20 THEN 35
    ELSE IF len <= 30 THEN 30
    ELSE IF len <= 50 THEN 25
    ELSE IF len <= 70 THEN 22
    ELSE 18

calculateModelFontSizeSmall(text) ==
    LET len == Len(text.s) IN
    IF ~HasLength(text) THEN 14
    ELSE IF len <= 20 THEN 35
    ELSE IF len <= 30 THEN 30
    ELSE IF len <= 50 THEN 24
    ELSE IF len <= 70 THEN 20
    ELSE IF len <= 90 THEN 18
    ELSE IF len <= 120 THEN 16
    ELSE 14

\* The template literal FORKKIT: ${FORKCODE} --- SHOCKKIT: ${SHOCKCODE} ---
\* COMBIKIT: ${COMBICODE}
kitLine(forkCode, shockCode, combiCode) ==
    <<"F", "O", "R", "K", "K", "I", "T", ":", " ">> \o ToChars(forkCode)
    \o <<" ", "-", "-", "-", " ", "S", "H", "O", "C", "K", "K", "I", "T", ":", " ">> \o ToChars(shockCode)
    \o <<" ", "-", "-", "-", " ", "C", "O", "M", "B", "I", "K", "I", "T", ":", " ">> \o ToChars(combiCode)

\* The size taken from the length of the three codes alone.
calculateKitFontSize_codesOnly(forkCode, shockCode, combiCode) ==
    LET len == Len(ToChars(forkCode)) + Len(ToChars(shockCode)) + Len(ToChars(combiCode)) IN
    IF len <= 40 THEN 28
    ELSE IF len <= 60 THEN 26
    ELSE IF len <= 80 THEN 24
    ELSE IF len <= 100 THEN 22
    ELSE IF len <= 120 THEN 20
    ELSE 18

calculateKitFontSize(forkCode, shockCode, combiCode) ==
    LET len == Len(kitLine(forkCode, shockCode, combiCode)) IN
    IF len <= 40 THEN 28
    ELSE IF len <= 60 THEN 26
    ELSE IF len <= 80 THEN 24
    ELSE IF len <= 100 THEN 22
    ELSE IF len <= 120 THEN 20
    ELSE 18

calculateNotesFontSize(text) ==
    LET len == Len(text.s) IN
    IF len <= 80 THEN 26
    ELSE IF len <= 120 THEN 24
    ELSE IF len <= 160 THEN 22
    ELSE IF len <= 200 THEN 20
    ELSE IF len <= 250 THEN 18
    ELSE 16

\* The four cases on the texts as they come, not trimmed.
combineNotes_noTrim(forkInfo, rearInfo) ==
    LET f == ToChars(OrElse(forkInfo, EmptyCell))
        r == ToChars(OrElse(rearInfo, EmptyCell))
    IN  IF f # <<>> /\ r # <<>> THEN <<"F", ":", " ">> \o f \o <<" ", "/", " ", "R", ":", " ">> \o r
        ELSE IF f # <<>> THEN <<"F", ":", " ">> \o f
        ELSE IF r # <<>> THEN <<"R", ":", " ">> \o r
        ELSE <<>>

\* (forkInfo || '').toString().trim() and the same for rearInfo, then the
\* four cases.
combineNotes(forkInfo, rearInfo) ==
    LET f == trim(ToChars(OrElse(forkInfo, EmptyCell)))
        r == trim(ToChars(OrElse(rearInfo, EmptyCell)))
    IN  IF f # <<>> /\ r # <<>> THEN <<"F", ":", " ">> \o f \o <<" ", "/", " ", "R", ":", " ">> \o r
        ELSE IF f # <<>> THEN <<"F", ":", " ">> \o f
        ELSE IF r # <<>> THEN <<"R", ":", " ">> \o r
        ELSE <<>>

combineNotesThrows(forkInfo, rearInfo) ==
    ToStringThrows(forkInfo) \/ ToStringThrows(rearInfo)

\* The sixteen display variables, in the order the object literal lists them.
displayFields(rowData) ==
    <<<<"BRAND_NAME", OrElse(rowData.F, NA)>>,
      <<"MODEL_TYPE", OrElse(rowData.G, NA)>>,
      <<"YEAR", OrElse(rowData.H, NA)>>,
      <<"FORK_SPRING", OrElse(rowData.I, NA)>>,
      <<"SHOCK_SPRING", OrElse(rowData.Q, NA)>>,
      <<"FORKCODE", OrElse(rowData.C, NONE)>>,
      <<"SHOCKCODE", OrElse(rowData.D, NONE)>>,
      <<"COMBICODE", OrElse(rowData.E, NONE)>>,
      <<"OIL_TYPE", OrElse(rowData.J, NA)>>,
      <<"OIL_LEVEL", OrElse(rowData.K, NA)>>,
      <<"FORK_PRELOAD", OrElse(rowData.L, NA)>>,
      <<"SHOCK_PRELOAD", OrElse(rowData.R, NA)>>,
      <<"FORK_SAG", OrElse(rowData.M, NA)>>,
      <<"SHOCK_SAG", OrElse(rowData.S, NA)>>,
      <<"FORK_COMPRESSION", OrElse(rowData.N, NA)>>,
      <<"SHOCK_COMPRESSION", OrElse(rowData.T, NA)>>>>

Lookup(variables, key) ==
    variables[CHOOSE i \in 1..Len(variables) : variables[i][1] = key][2]

\* ---------------------------------------------------------------- escaping
zplControl == {"^", "~", "\\", "{", "}"}

RECURSIVE escapeChars_onlyCaret(_)
escapeChars_onlyCaret(text) ==
    IF text = <<>> THEN <<>>
    ELSE (IF Head(text) = "^" THEN <<"\\", Head(text)>> ELSE <<Head(text)>>)
         \o escapeChars_onlyCaret(Tail(text))

\* text.replace(/[\^~\\{}]/g, char => zplEscapeMap[char])
\* (a text is escaped half by half, which gives what escaping its
\* characters one after the other gives)
RECURSIVE escapeChars(_)
escapeChars(text) ==
    IF text = <<>> THEN <<>>
    ELSE IF Len(text) = 1
    THEN (IF text[1] \in zplControl THEN <<"\\", text[1]>> ELSE text)
    ELSE LET half == Len(text) \div 2 IN
         escapeChars(SubSeq(text, 1, half)) \o escapeChars(SubSeq(text, half + 1, Len(text)))

\* SecurityUtils.escapeZpl: String(str), then every control character escaped.
escapeZpl(str) == Str(escapeChars(ToChars(str)))

\* ------------------------------------------------------ BatchZBLGenerator
Batch_stickerRules ==
    [fork  |-> [big |-> 1, smallFork |-> 2, smallShock |-> 0],
     shock |-> [big |-> 1, smallFork |-> 0, smallShock |-> 1],
     combi |-> [big |-> 1, smallFork |-> 2, smallShock |-> 1]]

\* [threw, vars]: vars lists <<name, value>> in the order the properties are
\* created; threw when rowData is null, when a code cannot be converted for
\* the kit line or when combineNotes cannot convert a note.
Batch_prepareVariables(rowData) ==
    LET raw == displayFields(rowData)
        brand == Lookup(raw, "BRAND_NAME")
        model == Lookup(raw, "MODEL_TYPE")
        fork == Lookup(raw, "FORKCODE")
        shock == Lookup(raw, "SHOCKCODE")
        combi == Lookup(raw, "COMBICODE")
        notes == Str(combineNotes(rowData.P, rowData.V))
    IN  [threw |-> \/ ~rowData.isObject
                   \/ ToStringThrows(fork) \/ ToStringThrows(shock) \/ ToStringThrows(combi)
                   \/ combineNotesThrows(rowData.P, rowData.V),
         vars |-> raw \o
            << <<"BRAND_FONT_SIZE", Num(calculateBrandFontSize(brand))>>,
               <<"MODEL_FONT_SIZE", Num(calculateModelFontSize(model))>>,
               <<"KIT_FONT_SIZE", Num(calculateKitFontSize(fork, shock, combi))>>,
               <<"BRAND_FONT_SIZE_SMALL", Num(calculateBrandFontSizeSmall(brand))>>,
               <<"MODEL_FONT_SIZE_SMALL", Num(calculateModelFontSizeSmall(model))>>,
               <<"NOTES", notes>>,
               <<"NOTES_FONT_SIZE", Num(calculateNotesFontSize(notes))>> >>]

\* The backtick and the apostrophe, which a TLA+ string cannot hold.
backtick == "BACKTICK"
apostrophe == "APOSTROPHE"

\* The text a replacement string inserts for one match: $$ is $, $& the match,
\* $ with a backtick the text before it, $ with an apostrophe the text after
\* it; any other $ stands for itself (the pattern has no groups).
RECURSIVE expandReplacement(_, _, _, _)
expandReplacement(repl, matched, before, after) ==
    IF ~\E k \in 1..Len(repl) : repl[k] = "$" THEN repl
    ELSE LET k == CHOOSE k \in 1..Len(repl) :
                     repl[k] = "$" /\ \A j \in 1..(k - 1) : repl[j] # "$"
         IN  SubSeq(repl, 1, k - 1) \o
             (IF k < Len(repl) /\ repl[k + 1] \in {"$", "&", backtick, apostrophe}
              THEN (CASE repl[k + 1] = "$" -> <<"$">>
                      [] repl[k + 1] = "&" -> matched
                      [] repl[k + 1] = backtick -> before
                      [] OTHER -> after)
                   \o expandReplacement(SubSeq(repl, k + 2, Len(repl)), matched, before, after)
              ELSE <<"$">>
                   \o expandReplacement(SubSeq(repl, k + 1, Len(repl)), matched, before, after))

matchesAt(text, pattern, i) ==
    /\ i + Len(pattern) - 1 <= Len(text)
    /\ SubSeq(text, i, i + Len(pattern) - 1) = pattern

\* The first position from i on where pattern matches, or 0.
firstMatch(text, pattern, i) ==
    IF \E j \in i..Len(text) : matchesAt(text, pattern, j)
    THEN CHOOSE j \in i..Len(text) :
            /\ matchesAt(text, pattern, j)
            /\ \A k \in i..(j - 1) : ~matchesAt(text, pattern, k)
    ELSE 0

\* text.replace(new RegExp(pattern, 'g'), repl) from position i on: matches
\* are found left to right in the original text and never overlap.
RECURSIVE replaceAllFrom(_, _, _, _)
replaceAllFrom(text, pattern, repl, i) ==
    Only({IF j = 0 THEN SubSeq(text, i, Len(text))
          ELSE SubSeq(text, i, j - 1)
               \o expandReplacement(repl, pattern, SubSeq(text, 1, j - 1),
                                    SubSeq(text, j + Len(pattern), Len(text)))
               \o replaceAllFrom(text, pattern, repl, j + Len(pattern))
          : j \in {firstMatch(text, pattern, i)}})

\* replace with a pattern that lacks the g flag: the first match only.
replaceAll_first(text, pattern, repl) ==
    LET j == firstMatch(text, pattern, 1) IN
    IF j = 0 THEN text
    ELSE SubSeq(text, 1, j - 1)
         \o expandReplacement(repl, pattern, SubSeq(text, 1, j - 1),
                              SubSeq(text, j + Len(pattern), Len(text)))
         \o SubSeq(text, j + Len(pattern), Len(text))

\* text.replace(new RegExp(pattern, 'g'), repl)
replaceAll(text, pattern, repl) ==
    Only({replaceAllFrom(t, p, r, 1) : t \in {text}, p \in {pattern}, r \in {repl}})

placeholder(key) == <<"{">> \o KeyChars[key] \o <<"}">>

\* Object.entries(variables).forEach: one global replace per variable, each
\* on the result of the one before.
RECURSIVE replaceVariables(_, _)
replaceVariables(template, variables) ==
    IF variables = <<>> THEN template
    ELSE replaceVariables(
            replaceAll(template, placeholder(Head(variables)[1]),
                       ToChars(Head(variables)[2])),
            Tail(variables))

\* replace() converts its replacement value to a string first.
replaceVariablesThrows(variables) ==
    \E i \in 1..Len(variables) : ToStringThrows(variables[i][2])

\* seq repeated n times, as the loops push it.
Repeat(seq, n) ==
    IF n <= 0 \/ seq = <<>> THEN <<>>
    ELSE [i \in 1..(Len(seq) * n) |-> seq[((i - 1) % Len(seq)) + 1]]

\* [threw, bigZpl, smallZpl, itemCounts] for one cart item: per kit unit
\* rules.big big labels, rules.smallFork small fork labels, then
\* rules.smallShock small shock labels.
generateStickerSet(kitType, rowData, quantity) ==
    LET known == kitType \in DOMAIN Batch_stickerRules
        rules == IF known THEN Batch_stickerRules[kitType]
                 ELSE [big |-> 0, smallFork |-> 0, smallShock |-> 0]
        passes == LoopCount(quantity)
        failed == [threw |-> TRUE, bigZpl |-> <<>>, smallZpl |-> <<>>,
                   itemCounts |-> [big |-> NaN, smallFork |-> NaN, smallShock |-> NaN]]
    IN  Only({
          IF prepared.threw \/ ~known
             \/ (passes >= 1 /\ replaceVariablesThrows(prepared.vars))
          THEN failed
          ELSE Only({
            [threw |-> FALSE,
             bigZpl |-> Repeat(Repeat(<<big>>, rules.big), passes),
             smallZpl |-> Repeat(Repeat(<<fork>>, rules.smallFork)
                                 \o Repeat(<<shock>>, rules.smallShock), passes),
             itemCounts |-> [big |-> Times(rules.big, quantity),
                             smallFork |-> Times(rules.smallFork, quantity),
                             smallShock |-> Times(rules.smallShock, quantity)]]
            : big \in {replaceVariables(templates.big, prepared.vars)},
              fork \in {replaceVariables(templates.smallFork, prepared.vars)},
              shock \in {replaceVariables(templates.smallShock, prepared.vars)}})
          : prepared \in {Batch_prepareVariables(rowData)}})

\* stickers[lo..hi].join('\n\n')
RECURSIVE joinRange(_, _, _)
joinRange(stickers, lo, hi) ==
    IF lo > hi THEN <<>>
    ELSE IF lo = hi THEN stickers[lo]
    ELSE LET mid == (lo + hi) \div 2
         IN  joinRange(stickers, lo, mid) \o <<"\n", "\n">> \o joinRange(stickers, mid + 1, hi)

\* stickers.join('\n\n')
join(stickers) == Only({joinRange(list, 1, Len(list)) : list \in {stickers}})

\* A mutant of stickerSets: the last cart entry first.
RECURSIVE stickerSets_lastFirst(_)
stickerSets_lastFirst(cartItems) ==
    IF cartItems = <<>> THEN <<>>
    ELSE stickerSets_lastFirst(Tail(cartItems))
         \o <<generateStickerSet(Head(cartItems).kitType, Head(cartItems).rowData,
                                 Head(cartItems).quantity)>>

RECURSIVE stickerSets(_)
stickerSets(cartItems) ==
    IF cartItems = <<>> THEN <<>>
    ELSE <<generateStickerSet(Head(cartItems).kitType, Head(cartItems).rowData,
                              Head(cartItems).quantity)>>
         \o stickerSets(Tail(cartItems))

RECURSIVE sumOf(_, _)
sumOf(sets, field) ==
    IF sets = <<>> THEN JsInt(0)
    ELSE Plus(sumOf(SubSeq(sets, 1, Len(sets) - 1), field), sets[Len(sets)].itemCounts[field])

RECURSIVE concatOf(_, _)
concatOf(sets, field) ==
    IF sets = <<>> THEN <<>> ELSE Head(sets)[field] \o concatOf(Tail(sets), field)

Threw == [threw |-> TRUE]

\* The batch with the items that fail left out instead of failing as a whole.
generateBatch_skipFailed(cartItems) ==
    LET Good(set) == ~set.threw IN
    Only({
    LET bigStickers == concatOf(sets, "bigZpl")
        smallStickers == concatOf(sets, "smallZpl")
        big == sumOf(sets, "big")
        smallFork == sumOf(sets, "smallFork")
        smallShock == sumOf(sets, "smallShock")
    IN  [threw |-> FALSE,
         bigStickers |-> bigStickers,
         smallStickers |-> smallStickers,
         bigZpl |-> join(bigStickers),
         smallZpl |-> join(smallStickers),
         counts |-> [big |-> big, smallFork |-> smallFork, smallShock |-> smallShock,
                     totalSmall |-> Plus(smallFork, smallShock),
                     grandTotal |-> Plus(Plus(big, smallFork), smallShock)]]
    : sets \in {SelectSeq(stickerSets(cartItems), Good)}})

\* The sticker arrays and the counts kept from one call to the next instead of
\* being made anew by each call.
generateBatch_accumulating(cartItems) ==
    Only({
    LET kept == generated.kind = "batch"
        bigStickers == (IF kept THEN generated.val.bigStickers ELSE <<>>)
                       \o concatOf(sets, "bigZpl")
        smallStickers == (IF kept THEN generated.val.smallStickers ELSE <<>>)
                         \o concatOf(sets, "smallZpl")
        big == Plus(IF kept THEN generated.val.counts.big ELSE JsInt(0), sumOf(sets, "big"))
        smallFork == sumOf(sets, "smallFork")
        smallShock == sumOf(sets, "smallShock")
    IN  IF \E i \in 1..Len(sets) : sets[i].threw
        THEN Threw
        ELSE [threw |-> FALSE,
              bigStickers |-> bigStickers,
              smallStickers |-> smallStickers,
              bigZpl |-> join(bigStickers),
              smallZpl |-> join(smallStickers),
              counts |-> [big |-> big, smallFork |-> smallFork, smallShock |-> smallShock,
                          totalSmall |-> Plus(smallFork, smallShock),
                          grandTotal |-> Plus(Plus(big, smallFork), smallShock)]]
    : sets \in {stickerSets(cartItems)}})

\* cartItems.forEach(generateStickerSet): an exception from any item leaves the
\* call, and the stickers collected so far are lost with its locals.
generateBatch(cartItems) ==
    Only({
    LET bigStickers == concatOf(sets, "bigZpl")
        smallStickers == concatOf(sets, "smallZpl")
        big == sumOf(sets, "big")
        smallFork == sumOf(sets, "smallFork")
        smallShock == sumOf(sets, "smallShock")
    IN  IF \E i \in 1..Len(sets) : sets[i].threw
        THEN Threw
        ELSE [threw |-> FALSE,
              bigStickers |-> bigStickers,
              smallStickers |-> smallStickers,
              bigZpl |-> join(bigStickers),
              smallZpl |-> join(smallStickers),
              counts |-> [big |-> big, smallFork |-> smallFork, smallShock |-> smallShock,
                          totalSmall |-> Plus(smallFork, smallShock),
                          grandTotal |-> Plus(Plus(big, smallFork), smallShock)]]
    : sets \in {stickerSets(cartItems)}})

\* ------------------------------------------------------------ ZBLGenerator
\* The size functions of ZBLGenerator.
ZBL_calculateBrandFontSize(text) ==
    LET len == Len(text.s) IN
    IF ~HasLength(text) THEN 25
    ELSE IF len <= 25 THEN 50
    ELSE IF len <= 40 THEN 40
    ELSE IF len <= 60 THEN 35
    ELSE IF len <= 80 THEN 30
    ELSE 25

ZBL_calculateModelFontSize(text) ==
    LET len == Len(text.s) IN
    IF ~HasLength(text) THEN 18
    ELSE IF len <= 25 THEN 50
    ELSE IF len <= 40 THEN 40
    ELSE IF len <= 60 THEN 32
    ELSE IF len <= 80 THEN 26
    ELSE IF len <= 100 THEN 22
    ELSE IF len <= 130 THEN 20
    ELSE 18

ZBL_calculateBrandFontSizeSmall(text) ==
    LET len == Len(text.s) IN
    IF ~HasLength(text) THEN 18
    ELSE IF len <= 20 THEN 35
    ELSE IF len <= 30 THEN 30
    ELSE IF len <= 50 THEN 25
    ELSE IF len <= 70 THEN 22
    ELSE 18

ZBL_calculateModelFontSizeSmall(text) ==
    LET len == Len(text.s) IN
    IF ~HasLength(text) THEN 14
    ELSE IF len <= 20 THEN 35
    ELSE IF len <= 30 THEN 30
    ELSE IF len <= 50 THEN 24
    ELSE IF len <= 70 THEN 20
    ELSE IF len <= 90 THEN 18
    ELSE IF len <= 120 THEN 16
    ELSE 14

ZBL_calculateKitFontSize(forkCode, shockCode, combiCode) ==
    LET len == Len(kitLine(forkCode, shockCode, combiCode)) IN
    IF len <= 40 THEN 28
    ELSE IF len <= 60 THEN 26
    ELSE IF len <= 80 THEN 24
    ELSE IF len <= 100 THEN 22
    ELSE IF len <= 120 THEN 20
    ELSE 18

ZBL_calculateNotesFontSize(text) ==
    LET len == Len(text.s) IN
    IF len <= 80 THEN 26
    ELSE IF len <= 120 THEN 24
    ELSE IF len <= 160 THEN 22
    ELSE IF len <= 200 THEN 20
    ELSE IF len <= 250 THEN 18
    ELSE 16

\* vars[field] = escapeZpl(vars[field]) for a truthy text field.
escapeIfTruthy(pair) ==
    IF Truthy(pair[2]) THEN <<pair[1], escapeZpl(pair[2])>> ELSE pair

\* [threw, vars]: notes and sizes are computed from the raw values, then the
\* seventeen text fields are escaped; the sizes stay numbers.
ZBL_prepareVariables(rowData) ==
    LET raw == displayFields(rowData)
        brand == Lookup(raw, "BRAND_NAME")
        model == Lookup(raw, "MODEL_TYPE")
        fork == Lookup(raw, "FORKCODE")
        shock == Lookup(raw, "SHOCKCODE")
        combi == Lookup(raw, "COMBICODE")
        notes == Str(combineNotes(rowData.P, rowData.V))
    IN  [threw |-> \/ ~rowData.isObject
                   \/ combineNotesThrows(rowData.P, rowData.V)
                   \/ \E i \in 1..Len(raw) : ToStringThrows(raw[i][2]),
         vars |-> [i \in 1..Len(raw) |-> escapeIfTruthy(raw[i])] \o
            << escapeIfTruthy(<<"NOTES", notes>>),
               <<"BRAND_FONT_SIZE", Num(ZBL_calculateBrandFontSize(brand))>>,
               <<"MODEL_FONT_SIZE", Num(ZBL_calculateModelFontSize(model))>>,
               <<"KIT_FONT_SIZE", Num(ZBL_calculateKitFontSize(fork, shock, combi))>>,
               <<"BRAND_FONT_SIZE_SMALL", Num(ZBL_calculateBrandFontSizeSmall(brand))>>,
               <<"MODEL_FONT_SIZE_SMALL", Num(ZBL_calculateModelFontSizeSmall(model))>>,
               <<"NOTES_FONT_SIZE", Num(ZBL_calculateNotesFontSize(notes))>> >>]

\* new ZBLGenerator(template).generate(rowData)
ZBL_generateWith(template, rowData) ==
    LET prepared == ZBL_prepareVariables(rowData) IN
    IF prepared.threw THEN [threw |-> TRUE, zpl |-> <<>>]
    ELSE [threw |-> FALSE, zpl |-> replaceVariables(template, prepared.vars)]

\* ZBLGenerator.generate on the big template (new ZBLGenerator(bigTemplate)).
ZBL_generate(rowData) == ZBL_generateWith(bigTemplate, rowData)


\* ------------------------------------------------------- output handlers
\* A document handed to a sink: BatchZBLGenerator.downloadFile,
\* printerManager.printZpl or pdfGenerator.openInNewTab.
Sink(sink, kind, zpl) == [sink |-> sink, kind |-> kind, zpl |-> zpl]

\* setTimeout(fn): fn is the small download of handleDownloadBoth with the
\* small document it closed over, or the name of a download handler.
Timer(fn, zpl) == [fn |-> fn, zpl |-> zpl]

Generated(batch) ==
    IF batch.threw THEN [kind |-> "threw"] ELSE [kind |-> "batch", val |-> batch]

\* The state a handler leaves: the cart is only read.
handlerStep(name, branch, outcome, sinks, newTimers) ==
    /\ op' = [name |-> name, branch |-> branch]
    /\ ret' = [kind |-> "void"]
    /\ notified' = <<>>
    /\ generated' = outcome
    /\ delivered' = sinks
    /\ timers' = newTimers
    /\ UNCHANGED <<items, nextId, storage, listeners, catalog, app, modules>>

\* The handlers below take the outcome of generateBatch(cart.getItems()) as
\* batch and the timers that stay pending as pending.  An exception of
\* generateBatch is caught by the handler before any sink is called.
handleDownloadBig(batch, pending) ==
    IF batch.threw
    THEN handlerStep("handleDownloadBig", "failed", Generated(batch), <<>>, pending)
    ELSE handlerStep("handleDownloadBig", "ok", Generated(batch),
                     <<Sink("download", "big", batch.bigZpl)>>, pending)

handleDownloadSmall(batch, pending) ==
    IF batch.threw
    THEN handlerStep("handleDownloadSmall", "failed", Generated(batch), <<>>, pending)
    ELSE handlerStep("handleDownloadSmall", "ok", Generated(batch),
                     <<Sink("download", "small", batch.smallZpl)>>, pending)

\* The big file now, the small file from a timer.
handleDownloadBoth(batch, pending) ==
    IF batch.threw
    THEN handlerStep("handleDownloadBoth", "failed", Generated(batch), <<>>, pending)
    ELSE handlerStep("handleDownloadBoth", "ok", Generated(batch),
                     <<Sink("download", "big", batch.bigZpl)>>,
                     Append(pending, Timer("downloadSmall", batch.smallZpl)))

\* printRouter.printBig / printSmall: an empty document is refused before the
\* printer is called; printed says whether printZpl resolved.  Every failure
\* schedules the download handler of the same size.
handlePrintOne(name, kind, fallback, canPrint, printed, batch, pending) ==
    IF ~canPrint
    THEN handlerStep(name, "unconfigured", NoBatch, <<>>, pending)
    ELSE IF batch.threw
    THEN handlerStep(name, "failed", Generated(batch), <<>>,
                     Append(pending, Timer(fallback, <<>>)))
    ELSE LET zpl == IF kind = "big" THEN batch.bigZpl ELSE batch.smallZpl IN
         IF zpl = <<>>
         THEN handlerStep(name, "noData", Generated(batch), <<>>,
                          Append(pending, Timer(fallback, <<>>)))
         ELSE IF printed
         THEN handlerStep(name, "ok", Generated(batch), <<Sink("print", kind, zpl)>>, pending)
         ELSE handlerStep(name, "rejected", Generated(batch), <<Sink("print", kind, zpl)>>,
                          Append(pending, Timer(fallback, <<>>)))

handlePrintBig(canPrintBig, printed, batch, pending) ==
    handlePrintOne("handlePrintBig", "big", "handleDownloadBig", canPrintBig, printed,
                   batch, pending)

handlePrintSmall(canPrintSmall, printed, batch, pending) ==
    handlePrintOne("handlePrintSmall", "small", "handleDownloadSmall", canPrintSmall,
                   printed, batch, pending)

\* printRouter.printBoth: the big document first, the small one only after the
\* big one printed; an empty document is skipped.
handlePrintBoth(canPrint, bigPrinted, smallPrinted, batch, pending) ==
    IF ~canPrint
    THEN handlerStep("handlePrintBoth", "unconfigured", NoBatch, <<>>, pending)
    ELSE IF batch.threw
    THEN handlerStep("handlePrintBoth", "failed", Generated(batch), <<>>,
                     Append(pending, Timer("handleDownloadBoth", <<>>)))
    ELSE LET big == IF batch.bigZpl = <<>> THEN <<>>
                    ELSE <<Sink("print", "big", batch.bigZpl)>>
             small == IF batch.smallZpl = <<>> THEN <<>>
                      ELSE <<Sink("print", "small", batch.smallZpl)>>
         IN  IF big # <<>> /\ ~bigPrinted
             THEN handlerStep("handlePrintBoth", "rejected", Generated(batch), big,
                              Append(pending, Timer("handleDownloadBoth", <<>>)))
             ELSE IF small # <<>> /\ ~smallPrinted
             THEN handlerStep("handlePrintBoth", "rejected", Generated(batch), big \o small,
                              Append(pending, Timer("handleDownloadBoth", <<>>)))
             ELSE handlerStep("handlePrintBoth", "ok", Generated(batch), big \o small, pending)

handlePdf(name, kind, hasPdfGenerator, batch, pending) ==
    IF ~hasPdfGenerator
    THEN handlerStep(name, "unavailable", NoBatch, <<>>, pending)
    ELSE IF batch.threw
    THEN handlerStep(name, "failed", Generated(batch), <<>>, pending)
    ELSE handlerStep(name, "ok", Generated(batch),
                     <<Sink("pdf", kind, IF kind = "big" THEN batch.bigZpl
                                         ELSE batch.smallZpl)>>, pending)

handlePdfBig(hasPdfGenerator, batch, pending) ==
    handlePdf("handlePdfBig", "big", hasPdfGenerator, batch, pending)

handlePdfSmall(hasPdfGenerator, batch, pending) ==
    handlePdf("handlePdfSmall", "small", hasPdfGenerator, batch, pending)

\* The callback of the oldest timer.
timeout(batch) ==
    LET timer == Head(timers)
        pending == Tail(timers)
    IN  IF timer.fn = "downloadSmall"
        THEN handlerStep("downloadSmall", "ok", NoBatch,
                         <<Sink("download", "small", timer.zpl)>>, pending)
        ELSE IF timer.fn = "handleDownloadBig" THEN handleDownloadBig(batch, pending)
        ELSE IF timer.fn = "handleDownloadSmall" THEN handleDownloadSmall(batch, pending)
        ELSE handleDownloadBoth(batch, pending)

\* ----------------------------------------------------- inputs of the cart
Row(c, d, e, f, g, p, v) ==
    [isObject |-> TRUE, ref |-> 1, C |-> c, D |-> d, E |-> e, F |-> f, G |-> g,
     H |-> Num(7), I |-> EmptyCell, J |-> Str(<<"o">>), K |-> Num(0),
     L |-> Str(<<"l">>), M |-> Str(<<"m">>), N |-> Str(<<"n">>), P |-> p,
     Q |-> Str(<<"q">>), R |-> Str(<<"r">>), S |-> Str(<<"s">>),
     T |-> Str(<<"t">>), V |-> v]

\* null passed as rowData
NullRow == [Row(EmptyCell, EmptyCell, EmptyCell, EmptyCell, EmptyCell, EmptyCell, EmptyCell)
            EXCEPT !.isObject = FALSE]

RowPlain ==
    Row(Str(<<"A", "1">>), EmptyCell, Str(<<"E", "1">>), Str(<<"H", "D">>),
        Str(<<"X">>), EmptyCell, EmptyCell)
RowNoCode == [RowPlain EXCEPT !.C = EmptyCell, !.E = Num(0)]
RowNoBrand == [RowPlain EXCEPT !.F = EmptyCell]
RowBlankBrand == [RowPlain EXCEPT !.F = Str(<<" ">>)]
RowZeroBrand == [RowPlain EXCEPT !.F = Num(0)]
RowNoModel == [RowPlain EXCEPT !.G = EmptyCell]
RowBlankModel == [RowPlain EXCEPT !.G = Str(<<" ", " ">>)]

CartRows == {RowPlain, RowNoCode, RowNoBrand, RowBlankBrand, RowZeroBrand,
             RowNoModel, RowBlankModel, NullRow}

KitInputs == {"fork", "shock", "combi", "Fork"}

One == JsInt(1)
QtyInputs ==
    {QNum(-50), QNum(0), QNum(5), QNum(25), QNum(999), QNum(1500),
     [t |-> "inf", v |-> 1], [t |-> "inf", v |-> -1], NaN,
     [t |-> "text", v |-> 0]}

\* The ids remove and updateQuantity are called with: every id the counter
\* can issue, and one it never issues.
IdInputs == 0..(MAX_ID + 1)

\* ------------------------------------------------------------- the page
\* The templates initializeApp fetches.
TemplateNames == {"big", "smallFork", "smallShock"}

\* ExcelParser.maxRetries
maxRetries == 3

\* The page before initializeApp has awaited anything: the loading indicator
\* is shown, excelParser exists, nothing else does.
LoadingApp ==
    [phase |-> "catalog", retryCount |-> 0, catalogLoaded |-> FALSE, loaded |-> {},
     productSearch |-> FALSE, batchGenerator |-> FALSE, cart |-> FALSE,
     handlers |-> FALSE, error |-> FALSE, loading |-> TRUE,
     searchInput |-> <<>>, quantityInput |-> 0, currentMatchResult |-> NoMatch,
     searchTimeout |-> FALSE, results |-> <<>>]

\* The page when initializeApp has run to its end.
ReadyApp ==
    [phase |-> "ready", retryCount |-> 0, catalogLoaded |-> TRUE, loaded |-> TemplateNames,
     productSearch |-> TRUE, batchGenerator |-> TRUE, cart |-> TRUE,
     handlers |-> TRUE, error |-> FALSE, loading |-> FALSE,
     searchInput |-> <<>>, quantityInput |-> 0, currentMatchResult |-> NoMatch,
     searchTimeout |-> FALSE, results |-> <<>>]

\* The fields of the search: searchInput is the text of #search-input,
\* quantityInput the number in #quantity-input (0 when it is empty), results
\* the rows shown in #search-results, searchTimeout whether the debounce timer
\* is pending.

\* A mutant of inputEvent: the stored match is kept while the user types.
inputEvent_keepMatch(page, text) ==
    [page EXCEPT !.searchInput = text, !.quantityInput = 0, !.searchTimeout = TRUE]

\* The input listener of #search-input once the field holds text: the timer
\* is set again, the quantity field and the stored match are cleared.
inputEvent(page, text) ==
    [page EXCEPT !.searchInput = text, !.quantityInput = 0,
                 !.currentMatchResult = NoMatch, !.searchTimeout = TRUE]

\* checkExactMatchAndSetQuantity(query)
checkExactMatchAndSetQuantity(page, data, query) ==
    LET result == searchExact(data, query) IN
    [page EXCEPT !.currentMatchResult = result,
                 !.quantityInput = IF result # NoMatch THEN 1 ELSE 0]

\* The data-matched-column displaySearchResults gives a row: the column equal
\* to the text of the search field, else the first that contains it, else the
\* first column that holds a code.
matchedColumn(row, value) ==
    LET query == trim(toLowerCase(value))
        cValue == toLowerCase(codeText(row.C))
        dValue == toLowerCase(codeText(row.D))
        eValue == toLowerCase(codeText(row.E))
    IN  IF cValue = query THEN "C"
        ELSE IF dValue = query THEN "D"
        ELSE IF eValue = query THEN "E"
        ELSE IF includes(cValue, query) THEN "C"
        ELSE IF includes(dValue, query) THEN "D"
        ELSE IF includes(eValue, query) THEN "E"
        ELSE IF cValue # <<>> THEN "C"
        ELSE IF dValue # <<>> THEN "D"
        ELSE "E"

\* displaySearchResults(results)
displaySearchResults(page, results) ==
    [page EXCEPT !.results = [i \in 1..Len(results) |->
                                [row |-> results[i],
                                 matchedColumn |-> matchedColumn(results[i], page.searchInput)]]]

\* The end of handleSearchEnter and of handleQuantityEnter: the search field,
\* the results, the quantity field and the stored match are cleared.
clearSearch(page) ==
    [page EXCEPT !.searchInput = <<>>, !.results = <<>>, !.quantityInput = 0,
                 !.currentMatchResult = NoMatch]

\* A mutant of allLoaded: one template is enough.
allLoaded_any(okSet) == okSet # {}

\* Promise.all of the three fetches resolves when each of them does.
allLoaded(okSet) == okSet = TemplateNames

\* ------------------------------------------------- the print modules
\* new PrintRouter, new PrinterManager, new SettingsStorage with nothing in
\* localStorage.  sent lists what printZpl was called with, attempted the
\* jobs processQueue took from the queue, jobs counts the jobs queued so far.
NewRouter == [printQueue |-> <<>>, isProcessingQueue |-> FALSE, loops |-> <<>>]
\* PrinterManager: timers are the delays of the reconnect timers that wait,
\* connecting the calls that wait for qz.websocket, status the last status
\* the listeners were notified of.  Since the connection closed last, delays
\* lists the delays of the timers set, attempts counts the connects the
\* timers made and failed tells whether 'failed' was notified.  closes and
\* manual count the closes and the calls of forceReconnect so far.
maxReconnectAttempts == 3
reconnectDelay == 2000
NewManager ==
    [isConnected |-> FALSE, reconnectAttempts |-> 0, timers |-> <<>>,
     connecting |-> <<>>, status |-> "none", delays |-> <<>>, attempts |-> 0,
     failed |-> FALSE, closes |-> 0, manual |-> 0]
NoPrinters == [smallSlot |-> "null", bigSlot |-> "null"]
NotStored == [present |-> FALSE, smallSlot |-> "null", bigSlot |-> "null"]
NewSettings == [stored |-> NotStored, defaultSettings |-> NoPrinters]
\* both is the call of printBoth under way or ended last: its number, its
\* documents, what canPrint said when it was made, where it stands and
\* whether the print of the big document failed.
NoCallOfBoth ==
    [n |-> 0, bigZpl |-> FALSE, smallZpl |-> FALSE, ready |-> FALSE, stage |-> "none",
     bigFailed |-> FALSE]
NewModules ==
    [router |-> NewRouter, manager |-> NewManager, settings |-> NewSettings,
     sent |-> <<>>, attempted |-> <<>>, jobs |-> 0, both |-> NoCallOfBoth]

\* SettingsStorage.loadSettings: the stored settings, or the defaultSettings
\* object when nothing is stored.
loadSettings(m) ==
    IF ~m.settings.stored.present THEN m.settings.defaultSettings
    ELSE [smallSlot |-> m.settings.stored.smallSlot, bigSlot |-> m.settings.stored.bigSlot]

getSmallPrinter(m) == loadSettings(m).smallSlot
getBigPrinter(m) == loadSettings(m).bigSlot
areBothPrintersConfigured(m) == getSmallPrinter(m) # "null" /\ getBigPrinter(m) # "null"

\* PrintRouter.canPrint
canPrint(m) == m.manager.isConnected /\ areBothPrintersConfigured(m)

\* The checks of printSmall and printBig ahead of printZpl: a document, a
\* printer in the slot, a connection.
canSend(m, size, hasZpl) ==
    /\ hasZpl
    /\ (IF size = "small" THEN getSmallPrinter(m) ELSE getBigPrinter(m)) # "null"
    /\ m.manager.isConnected

\* The loops without loop k.
Dropped(loops, k) == SubSeq(loops, 1, k - 1) \o SubSeq(loops, k + 1, Len(loops))

\* The while loop of processQueue for loop k, from its condition on: with an
\* empty queue the loop ends and isProcessingQueue is reset; otherwise the
\* first job is taken and printed.  A job whose checks fail throws, the catch
\* logs it and the loop goes on; a job that passes them is handed to printZpl,
\* and the loop waits for it.
RECURSIVE whileLoop(_, _)
whileLoop(m, k) ==
    IF m.router.printQueue = <<>>
    THEN [m EXCEPT !.router.isProcessingQueue = FALSE,
                   !.router.loops = Dropped(@, k)]
    ELSE LET job == Head(m.router.printQueue)
             taken == [m EXCEPT !.router.printQueue = Tail(@),
                                !.attempted = Append(@, job.id)]
             size == IF job.type = "small" THEN "small" ELSE "big"
         IN  IF /\ job.type = "both" => canPrint(taken)
                /\ canSend(taken, size, job.zpl)
             THEN [taken EXCEPT !.router.loops[k] = [job |-> job, size |-> size,
                                                     stage |-> "print"],
                                !.sent = Append(@, [id |-> job.id, size |-> size])]
             ELSE whileLoop(taken, k)

\* processQueue up to its first await.
processQueue(m) ==
    LET k == Len(m.router.loops) + 1 IN
    IF m.router.printQueue = <<>> THEN [m EXCEPT !.router.isProcessingQueue = FALSE]
    ELSE whileLoop([m EXCEPT !.router.isProcessingQueue = TRUE,
                             !.router.loops = Append(@, [stage |-> "run"])], k)

\* PrintRouter.queuePrintJob(job)
queuePrintJob(m, job) ==
    LET queued == [m EXCEPT !.router.printQueue = Append(@, job), !.jobs = @ + 1] IN
    IF ~queued.router.isProcessingQueue THEN processQueue(queued) ELSE queued

\* A mutant of clearQueue: the flag of a running loop is left alone.
clearQueue_keepFlag(m) == [m EXCEPT !.router.printQueue = <<>>]

\* PrintRouter.clearQueue
clearQueue(m) == [m EXCEPT !.router.printQueue = <<>>, !.router.isProcessingQueue = FALSE]

\* A mutant of printSettled: a failed print ends the loop.
printSettled_stopOnFailure(m, k, ok) ==
    IF ~ok
    THEN [m EXCEPT !.router.isProcessingQueue = FALSE, !.router.loops = Dropped(@, k)]
    ELSE IF m.router.loops[k].job.type = "both" /\ m.router.loops[k].size = "big"
    THEN [m EXCEPT !.router.loops[k].stage = "pause"]
    ELSE [m EXCEPT !.router.loops[k].stage = "delay"]

\* The printZpl call loop k waits for is settled.  After a good print of the
\* big label of a both job printBoth waits delay ms and prints the small
\* label; after any other good print processQueue waits 200 ms; after a
\* failed one the catch logs it and the loop goes on.
printSettled(m, k, ok) ==
    LET loop == m.router.loops[k] IN
    IF ~ok THEN whileLoop(m, k)
    ELSE IF loop.job.type = "both" /\ loop.size = "big"
    THEN [m EXCEPT !.router.loops[k].stage = "pause"]
    ELSE [m EXCEPT !.router.loops[k].stage = "delay"]

\* The delay loop k waits for is over: printBoth goes on to printSmall, or
\* processQueue to its next job.
delayOver(m, k) ==
    LET loop == m.router.loops[k] IN
    IF loop.stage = "pause"
    THEN IF canSend(m, "small", loop.job.zpl)
         THEN [m EXCEPT !.router.loops[k] = [loop EXCEPT !.size = "small", !.stage = "print"],
                        !.sent = Append(@, [id |-> loop.job.id, size |-> "small"])]
         ELSE whileLoop(m, k)
    ELSE whileLoop(m, k)

\* PrinterManager.attemptReconnect
attemptReconnect(m) ==
    IF m.manager.reconnectAttempts >= maxReconnectAttempts
    THEN [m EXCEPT !.manager.status = "failed", !.manager.failed = TRUE]
    ELSE LET n == m.manager.reconnectAttempts + 1
             delay == reconnectDelay * 2 ^ (n - 1)
         IN  [m EXCEPT !.manager.reconnectAttempts = n,
                       !.manager.timers = Append(@, delay),
                       !.manager.delays = Append(@, delay)]

\* The callback of setupDisconnectHandler: the connection closed.
closed(m) ==
    attemptReconnect([m EXCEPT !.manager.isConnected = FALSE,
                               !.manager.status = "disconnected",
                               !.manager.delays = <<>>,
                               !.manager.attempts = 0,
                               !.manager.failed = FALSE,
                               !.manager.closes = @ + 1])

\* PrinterManager.connect up to its await, called by origin: nothing when
\* connected already, otherwise the call waits for qz.websocket.connect.
connect(m, origin) ==
    IF m.manager.isConnected THEN m
    ELSE [m EXCEPT !.manager.connecting = Append(@, [origin |-> origin, stage |-> "connect"])]

\* The callback of the reconnect timer k.
reconnectTimer(m, k) ==
    LET fired == [m EXCEPT !.manager.timers = Dropped(@, k)] IN
    IF fired.manager.isConnected THEN fired
    ELSE connect([fired EXCEPT !.manager.attempts = @ + 1], "timer")

\* PrinterManager.forceReconnect up to its first await.
forceReconnect(m) ==
    LET reset == [m EXCEPT !.manager.reconnectAttempts = 0, !.manager.manual = @ + 1] IN
    IF reset.manager.isConnected
    THEN [reset EXCEPT !.manager.connecting =
                           Append(@, [origin |-> "force", stage |-> "disconnect"])]
    ELSE connect(reset, "force")

\* The call k of qz.websocket is settled.  A disconnect that resolves clears
\* isConnected, one that rejects is logged, and forceReconnect goes on to
\* connect.  A connect that resolves sets isConnected and resets the counter;
\* one that rejects throws, which the timer callback answers with
\* attemptReconnect and forceReconnect with false.
websocketSettled(m, k, ok) ==
    LET call == m.manager.connecting[k]
        rest == [m EXCEPT !.manager.connecting = Dropped(@, k)]
    IN  IF call.stage = "disconnect"
        THEN connect(IF ok THEN [rest EXCEPT !.manager.isConnected = FALSE,
                                             !.manager.status = "disconnected"]
                     ELSE rest, "force")
        ELSE IF ok
        THEN [rest EXCEPT !.manager.isConnected = TRUE,
                          !.manager.reconnectAttempts = 0,
                          !.manager.status = "connected"]
        ELSE IF call.origin = "timer" THEN attemptReconnect(rest)
        ELSE rest

\* SettingsStorage.saveSettings(settings): the settings are written when
\* localStorage.setItem takes them.
saveSettings(m, settings, saves) ==
    IF saves
    THEN [m EXCEPT !.settings.stored = [present |-> TRUE, smallSlot |-> settings.smallSlot,
                                        bigSlot |-> settings.bigSlot]]
    ELSE m

\* SettingsStorage.setSmallPrinter and setBigPrinter: the slot of the object
\* loadSettings returned is assigned, and the object is saved.  With nothing
\* stored that object is defaultSettings itself.
setPrinter(m, slot, printerName, saves) ==
    LET value == IF printerName = "" THEN "null" ELSE printerName
        settings == [loadSettings(m) EXCEPT ![slot] = value]
        assigned == IF m.settings.stored.present THEN m
                    ELSE [m EXCEPT !.settings.defaultSettings = settings]
    IN  saveSettings(assigned, settings, saves)

\* SettingsStorage.clearSettings
clearSettings(m) == [m EXCEPT !.settings.stored = NotStored]

\* printSmall(smallZpl) of printBoth up to its await.
bothSmall(m) ==
    IF ~m.both.smallZpl THEN [m EXCEPT !.both.stage = "resolved"]
    ELSE IF canSend(m, "small", TRUE)
    THEN [m EXCEPT !.both.stage = "small",
                   !.sent = Append(@, [id |-> m.both.n, size |-> "small"])]
    ELSE [m EXCEPT !.both.stage = "threw"]

\* PrintRouter.printBoth(bigZpl, smallZpl) up to its first await.
printBoth(m, bigZpl, smallZpl) ==
    LET call == [m EXCEPT !.both = [n |-> m.both.n + 1, bigZpl |-> bigZpl,
                                    smallZpl |-> smallZpl, ready |-> canPrint(m),
                                    stage |-> "called", bigFailed |-> FALSE]]
    IN  IF ~canPrint(call) THEN [call EXCEPT !.both.stage = "threw"]
        ELSE IF bigZpl
        THEN IF canSend(call, "big", TRUE)
             THEN [call EXCEPT !.both.stage = "big",
                               !.sent = Append(@, [id |-> call.both.n, size |-> "big"])]
             ELSE [call EXCEPT !.both.stage = "threw", !.both.bigFailed = TRUE]
        ELSE bothSmall(call)

\* A mutant of bothSettled: printBoth goes on after a failed big print.
bothSettled_goOn(m, ok) ==
    IF m.both.stage = "big"
    THEN IF m.both.smallZpl THEN [m EXCEPT !.both.stage = "pause", !.both.bigFailed = ~ok]
         ELSE [m EXCEPT !.both.stage = "resolved", !.both.bigFailed = ~ok]
    ELSE [m EXCEPT !.both.stage = IF ok THEN "resolved" ELSE "threw"]

\* The printZpl call printBoth waits for is settled: after the big document
\* printBoth waits delay ms when there is a small one, and a failed print is
\* thrown on.
bothSettled(m, ok) ==
    IF ~ok
    THEN [m EXCEPT !.both.stage = "threw", !.both.bigFailed = (m.both.stage = "big")]
    ELSE IF m.both.stage = "big" /\ m.both.smallZpl
    THEN [m EXCEPT !.both.stage = "pause"]
    ELSE [m EXCEPT !.both.stage = "resolved"]

\* ------------------------------------------------- specification: the cart
\* The cart as initializeApp leaves it when localStorage holds stored: new
\* Cart(), which calls loadFromStorage, then cart.addListener(updateCartUI).
InitWith(stored, data) ==
    LET cart == loadFromStorage(stored) IN
    /\ items = cart.items
    /\ nextId = cart.nextId
    /\ storage = cart.storage
    /\ listeners = <<"ok">>
    /\ op = [name |-> "new", branch |-> cart.branch]
    /\ ret = [kind |-> "void"]
    /\ notified = <<>>
    /\ generated = NoBatch
    /\ delivered = <<>>
    /\ timers = <<>>
    /\ catalog = data
    /\ app = ReadyApp
    /\ modules = NewModules

\* The catalog when it does not matter: one record.
DefaultCatalog == <<RowPlain>>

InitFrom(stored) == InitWith(stored, DefaultCatalog)

\* Nothing stored.
Init == InitFrom(NoStorage)

\* Spec: every row and kit type, quantity 1.
Add == \E rowData \in CartRows, kitType \in KitInputs : addToCart(rowData, kitType, One)
Remove == \E itemId \in IdInputs : removeFromCart(itemId)
Update == \E itemId \in IdInputs : updateQuantity(itemId, One)
Clear == clearCart

Next == Add \/ Remove \/ Update \/ Clear

Spec == Init /\ [][Next]_vars

\* SpecQty: one row and kit type, every quantity.
AddQty == \E quantity \in QtyInputs : addToCart(RowPlain, "fork", quantity)
UpdateQty == \E itemId \in IdInputs, quantity \in QtyInputs : updateQuantity(itemId, quantity)

NextQty == AddQty \/ Remove \/ UpdateQty \/ Clear

SpecQty == Init /\ [][NextQty]_vars

\* ------------------------------------------- specification: listeners
\* A callback is registered as one that returns or one that throws.
ListenerInputs == {"ok", "throws"}

Listen == \E callback \in ListenerInputs : addListener(callback)

\* One record, a valid and an invalid kit type, quantity 1.
AddListen == \E kitType \in {"fork", "Fork"} : addToCart(RowPlain, kitType, One)

NextListen == Listen \/ AddListen \/ Remove \/ Update \/ Clear

SpecListen == Init /\ [][NextListen]_vars

\* ------------------------------- specification: the catalog and the cart
\* The records parseData makes are plain objects the page keeps and hands to
\* addToCart as they are (cart.addToCart(match, ...)): record i is object i,
\* and a Date it holds is Date object i.
RowDated == [RowPlain EXCEPT !.C = DateCell(1, 1)]
RowSecond == [RowPlain EXCEPT !.F = Str(<<"K">>), !.ref = 2]
AliasCatalog == <<RowDated, RowSecond>>

InitAlias == InitWith(NoStorage, AliasCatalog)

\* The same object reached through another reference: an assignment to a
\* property of object ref shows in every holder of that object.
setProperty(obj, ref, field, value) ==
    IF obj.ref = ref THEN [obj EXCEPT ![field] = value] ELSE obj

\* Date object ref set to another time, as seen through the cell of a holder.
setTimeOfCell(cell, ref, time) ==
    IF cell.k = "date" /\ cell.ref = ref THEN [cell EXCEPT !.n = time] ELSE cell

setTimeIn(obj, ref, time) ==
    [f \in DOMAIN obj |-> IF f \in Columns THEN setTimeOfCell(obj[f], ref, time)
                          ELSE obj[f]]

\* Code outside the cart: catalog[i][field] = value.
SetCell(i, field, value) ==
    /\ catalog' = [catalog EXCEPT ![i][field] = value]
    /\ items' = [j \in 1..Len(items) |->
                   [items[j] EXCEPT !.rowData = setProperty(@, catalog[i].ref, field, value)]]
    /\ op' = [name |-> "setCell", branch |-> "ok"]
    /\ ret' = [kind |-> "void"]
    /\ notified' = <<>> /\ delivered' = <<>> /\ generated' = NoBatch
    /\ UNCHANGED <<nextId, storage, listeners, timers, app, modules>>

\* Code outside the cart: catalog[i][field].setTime(time) on a Date.
SetTime(i, field, time) ==
    /\ catalog[i][field].k = "date"
    /\ LET ref == catalog[i][field].ref IN
       /\ catalog' = [k \in 1..Len(catalog) |-> setTimeIn(catalog[k], ref, time)]
       /\ items' = [j \in 1..Len(items) |->
                      [items[j] EXCEPT !.rowData = setTimeIn(@, ref, time),
                                       !.productCode = setTimeOfCell(@, ref, time)]]
    /\ op' = [name |-> "setTime", branch |-> "ok"]
    /\ ret' = [kind |-> "void"]
    /\ notified' = <<>> /\ delivered' = <<>> /\ generated' = NoBatch
    /\ UNCHANGED <<nextId, storage, listeners, timers, app, modules>>

MutatedFields == {"F"}
MutatedValues == {Str(<<"Z">>)}
DateFields == {"C"}
MutatedTimes == {1, 2}

AddAlias ==
    \E i \in 1..Len(catalog) : addToCart(catalog[i], "fork", One)
MutateCell ==
    \E i \in 1..Len(catalog), field \in MutatedFields, value \in MutatedValues :
        SetCell(i, field, value)
MutateDate ==
    \E i \in 1..Len(catalog), field \in DateFields, time \in MutatedTimes :
        SetTime(i, field, time)

NextAlias == AddAlias \/ MutateCell \/ MutateDate \/ Clear

SpecAlias == InitAlias /\ [][NextAlias]_vars

\* ------------------------------------------- specification: label output
\* A stored entry as JSON.parse returns it.
StoredItem(id, rowData, kitType, quantity) ==
    [id |-> id, rowData |-> [rowData EXCEPT !.ref = 0], kitType |-> kitType, quantity |-> quantity,
     productCode |-> productCodeFor(kitType, rowData),
     productName |-> productNameFor(rowData)]

\* A record with ZPL control characters in its brand and its fork notes.
RowCtl == [RowPlain EXCEPT !.F = Str(<<"^", "X", "Z", "~">>),
                           !.P = Str(<<"{", "\\", "}">>)]

\* A stored record whose fork notes are an object without a callable
\* toString: JSON text can hold {"P": {"toString": null}}.
RowBadNotes == [RowPlain EXCEPT !.P = BadObj]

\* What localStorage may hold when the application starts: nothing, a cart
\* with a record that cannot be rendered after one that can, or a cart with a
\* quantity of 1.5.
StoredCarts ==
    {NoStorage,
     saveToStorage(<<StoredItem(1, RowPlain, "fork", One),
                     StoredItem(2, RowBadNotes, "shock", One)>>, 3),
     saveToStorage(<<StoredItem(1, RowPlain, "fork", QNum(15))>>, 2)}

InitGen == \E stored \in StoredCarts : InitFrom(stored)

GenInputs ==
    {<<RowPlain, "fork", One>>, <<RowCtl, "combi", QNum(25)>>,
     <<RowPlain, "shock", QNum(25)>>}

AddGen == \E input \in GenInputs : addToCart(input[1], input[2], input[3])

\* A click on one of the output buttons, which updateDownloadButtons disables
\* while the cart is empty.
handlersWith(batch, pending) ==
    \/ handleDownloadBig(batch, pending)
    \/ handleDownloadSmall(batch, pending)
    \/ handleDownloadBoth(batch, pending)
    \/ \E canPrintBig \in BOOLEAN, printed \in BOOLEAN :
          handlePrintBig(canPrintBig, printed, batch, pending)
    \/ \E canPrintSmall \in BOOLEAN, printed \in BOOLEAN :
          handlePrintSmall(canPrintSmall, printed, batch, pending)
    \/ \E canPrintBoth \in BOOLEAN, bigPrinted \in BOOLEAN, smallPrinted \in BOOLEAN :
          handlePrintBoth(canPrintBoth, bigPrinted, smallPrinted, batch, pending)
    \/ \E hasPdfGenerator \in BOOLEAN : handlePdfBig(hasPdfGenerator, batch, pending)
    \/ \E hasPdfGenerator \in BOOLEAN : handlePdfSmall(hasPdfGenerator, batch, pending)

Handle ==
    /\ items # <<>>
    /\ Len(timers) < MaxTimers
    /\ \E batch \in {generateBatch(getItems)} : handlersWith(batch, timers)

Timeout ==
    /\ timers # <<>>
    /\ \E batch \in {generateBatch(getItems)} : timeout(batch)

NextGen == AddGen \/ Handle \/ Timeout

SpecGen == InitGen /\ [][NextGen]_vars

\* ------------------------------------------- specification: restoring
\* What localStorage can hold when the page loads: nothing, a snapshot of
\* another version, a snapshot whose entries all pass the filter, one with an
\* entry of a kit type that is not valid after a good one, one with an entry
\* whose record lacks the brand before a good one, and one with no good entry.
OtherVersion ==
    [saveToStorage(<<StoredItem(1, RowPlain, "fork", One)>>, 2)
     EXCEPT !.version = STORAGE_VERSION + 1]

RestoreInputs ==
    {NoStorage,
     OtherVersion,
     saveToStorage(<<StoredItem(1, RowPlain, "fork", One)>>, 2),
     saveToStorage(<<StoredItem(1, RowPlain, "fork", One),
                     StoredItem(2, RowPlain, "Fork", One)>>, 3),
     saveToStorage(<<StoredItem(1, RowNoBrand, "shock", One),
                     StoredItem(2, RowPlain, "combi", One)>>, 3),
     saveToStorage(<<StoredItem(1, RowNoCode, "fork", One)>>, 2)}

InitRestore == \E stored \in RestoreInputs : InitFrom(stored)

AddRestore == \E kitType \in {"fork", "Fork"} : addToCart(RowPlain, kitType, One)

\* The page is loaded again: new Cart() reads what the last one stored, and
\* initializeApp adds its listener.
Reload ==
    /\ items # <<>>
    /\ LET cart == loadFromStorage(storage) IN
       /\ items' = cart.items /\ nextId' = cart.nextId /\ storage' = cart.storage
       /\ op' = [name |-> "new", branch |-> cart.branch]
    /\ listeners' = <<"ok">>
    /\ ret' = [kind |-> "void"] /\ notified' = <<>> /\ generated' = NoBatch
    /\ delivered' = <<>> /\ timers' = <<>>
    /\ UNCHANGED <<catalog, app, modules>>

NextRestore == AddRestore \/ Remove \/ Update \/ Clear \/ Reload

SpecRestore == InitRestore /\ [][NextRestore]_vars

\* ------------------------------------------- specification: searching
\* Records with codes in one, two or three columns, in either case, one with
\* a number and a code that starts with a space.
SearchRows ==
    {[RowPlain EXCEPT !.C = Str(<<"A", "b">>), !.D = EmptyCell, !.E = EmptyCell],
     [RowPlain EXCEPT !.C = EmptyCell, !.D = Str(<<"A", "B">>), !.E = Str(<<"b">>)],
     [RowPlain EXCEPT !.C = Str(<<"B">>), !.D = Str(<<"B">>), !.E = Str(<<"x", "a", "B">>)],
     [RowPlain EXCEPT !.C = Num(12), !.D = Str(<<" ", "B">>), !.E = Num(0)]}

\* The catalogs of up to MaxCatalog of these records; record i is object i.
SearchCatalogs ==
    UNION {{[i \in 1..n |-> [f[i] EXCEPT !.ref = i]] : f \in [1..n -> SearchRows]} :
           n \in 0..MaxCatalog}

QueryInputs ==
    {<<>>, <<" ">>, <<"b">>, <<"B", " ">>, <<"a", "b">>, <<" ", "A", "B", " ">>,
     <<"1", "2">>, <<"z", "z">>, <<"x", "A", "b">>}

InitSearch == \E data \in SearchCatalogs : InitWith(NoStorage, data)

\* What a search leaves of the cart and of the output: nothing changes.
searchStep(name, query, result) ==
    /\ op' = [name |-> name, branch |-> "ok", query |-> query]
    /\ ret' = result
    /\ notified' = <<>> /\ delivered' = <<>> /\ generated' = NoBatch
    /\ UNCHANGED <<items, nextId, storage, listeners, timers, catalog, app, modules>>

SearchExact ==
    \E query \in QueryInputs : searchStep("searchExact", query, searchExact(catalog, query))

Search ==
    \E query \in QueryInputs :
        searchStep("search", query, [kind |-> "rows", val |-> search(catalog, query)])

NextSearch == SearchExact \/ Search

SpecSearch == InitSearch /\ [][NextSearch]_vars

\* -------------------------------------- specification: a single label
\* Records whose brand, model, fork code and notes are short, are numbers, or
\* sit on a threshold of their role and consist of characters that escapeZpl
\* doubles.
LabelRows ==
    {[RowPlain EXCEPT !.F = f, !.G = g, !.C = c, !.D = d, !.P = p] :
        f \in {Str(<<"H", "D">>), Str(Repeat(<<"^">>, 25)), Num(900), EmptyCell},
        g \in {Str(<<"X">>), Str(Repeat(<<"~">>, 20)), Num(12)},
        c \in {Str(<<"A", "1">>), Str(Repeat(<<"\\">>, 15))},
        d \in {EmptyCell, Num(7)},
        p \in {EmptyCell, Str(Repeat(<<"{">>, 77))}}

\* Records with each code missing, short, a number, or one of the codes of
\* the longest kit line of the catalog.
LongForkCode == Str(<<"S", "P", "-", "H", "D", "1", "4", "-", "S", "S", "A", "0", "0", "1", "R", "E", "V">>)
LongShockCode == Str(<<"S", "P", "-", "H", "D", "1", "4", "-", "S", "S", "D", "0", "0", "1", "R", "E", "V">>)
LongCombiCode == Str(<<"S", "P", "-", "H", "D", "1", "4", "-", "S", "S", "E", "0", "0", "1", "R", "E", "V">>)

KitRows ==
    {[RowPlain EXCEPT !.C = c, !.D = d, !.E = e] :
        c \in {EmptyCell, Str(<<"A", "1">>), LongForkCode},
        d \in {EmptyCell, Num(7), LongShockCode},
        e \in {EmptyCell, Num(0), LongCombiCode}}

\* Records whose oil level is the number 0, another number or missing, and
\* whose fork spring is missing or a blank.
FieldRows ==
    {[RowPlain EXCEPT !.K = k, !.I = i] :
        k \in {Num(0), Num(5), EmptyCell},
        i \in {EmptyCell, Str(<<" ">>)}}

\* Records whose fork and rear notes are missing, blank, padded with blanks,
\* plain, or long.
NoteTexts ==
    {EmptyCell, Str(<<" ", " ">>), Str(<<" ", "A", " ", "a", " ">>), Str(<<"B">>),
     Str(Repeat(<<"n">>, 130))}

NoteRows == {[RowPlain EXCEPT !.P = p, !.V = v] : p \in NoteTexts, v \in NoteTexts}

InitLabel ==
    \E row \in LabelRows \cup KitRows \cup FieldRows \cup NoteRows :
        InitWith(NoStorage, <<row>>)

\* batchGenerator.prepareVariables(rowData) on a record of the catalog.
PrepareVariables ==
    /\ \E i \in 1..Len(catalog) :
       \E prepared \in {Batch_prepareVariables(catalog[i])} :
          /\ op' = [name |-> "prepare", branch |-> IF prepared.threw THEN "threw" ELSE "ok",
                     row |-> i]
          /\ ret' = [kind |-> "vars", vars |-> prepared.vars]
    /\ notified' = <<>> /\ delivered' = <<>> /\ generated' = NoBatch
    /\ UNCHANGED <<items, nextId, storage, listeners, timers, catalog, app, modules>>

\* zblGenerator.generate(rowData) on a record of the catalog.
GenerateLabel ==
    /\ \E i \in 1..Len(catalog) :
       \E label \in {ZBL_generate(catalog[i])},
          prepared \in {ZBL_prepareVariables(catalog[i])} :
          /\ op' = [name |-> "generate", branch |-> IF label.threw THEN "threw" ELSE "ok",
                     row |-> i]
          /\ ret' = [kind |-> "label", vars |-> prepared.vars, zpl |-> label.zpl]
    /\ notified' = <<>> /\ delivered' = <<>> /\ generated' = NoBatch
    /\ UNCHANGED <<items, nextId, storage, listeners, timers, catalog, app, modules>>

NextLabel == GenerateLabel \/ PrepareVariables

SpecLabel == InitLabel /\ [][NextLabel]_vars

\* --------------------------------------- specification: the front end
\* What cart.addToCart(rowData, kitType, quantity) makes of a cart with the
\* entries its and the counter nid: whether an entry was added (the return
\* value is the entry, not null), the branch taken, and the entries and the
\* counter after the call.
addOutcome(its, nid, rowData, kitType, quantity) ==
    LET validation == validateRowData(rowData)
        rejected(branch) == [added |-> FALSE, branch |-> branch, items |-> its, nextId |-> nid]
    IN  IF validation.threw THEN rejected("threw")
        ELSE IF ~validation.valid THEN rejected("row")
        ELSE IF ~validateKitType(kitType) THEN rejected("kit")
        ELSE IF cartIsFull(its) THEN rejected("full")
        ELSE LET id == idAfterOverflowCheck(nid)
                 clonedRowData == deepClone(rowData)
                 item == [id |-> id,
                          rowData |-> clonedRowData,
                          kitType |-> kitType,
                          quantity |-> JsInt(validateQuantity(quantity).clamped),
                          productCode |-> productCodeFor(kitType, clonedRowData),
                          productName |-> productNameFor(clonedRowData)]
             IN  [added |-> TRUE, branch |-> "ok", items |-> Append(its, item),
                  nextId |-> id + 1]

\* A catalog with a record the cart accepts and a record it rejects (a code,
\* but no brand).
FrontCatalog ==
    <<[RowPlain EXCEPT !.C = Str(<<"A", "B">>), !.E = EmptyCell],
      [RowPlain EXCEPT !.C = EmptyCell, !.D = Str(<<"N", "B">>), !.E = EmptyCell,
                       !.F = EmptyCell, !.ref = 2]>>

FrontQueries == {<<"a", "b">>, <<"n", "b">>, <<"z", "z">>}

\* parseInt(quantityInput.value) || 1
FrontQuantities == {JsInt(1), JsInt(150)}

\* currentMatchResult: null, or what checkExactMatchAndSetQuantity stored for
\* the text typed last.
CurrentMatches == {NoMatch} \cup {searchExact(catalog, query) : query \in FrontQueries}

InitFront == InitWith(NoStorage, FrontCatalog)

\* The state a handler of the page leaves after at most one call of
\* addToCart with the outcome given; toast is the type of the toast shown, or
\* "none".
frontStep(name, called, outcome, toast) ==
    /\ op' = [name |-> name, branch |-> IF called THEN outcome.branch ELSE "noMatch"]
    /\ ret' = [kind |-> "toast", type |-> toast]
    /\ items' = outcome.items
    /\ nextId' = outcome.nextId
    /\ storage' = IF outcome.added THEN saveToStorage(outcome.items, outcome.nextId)
                  ELSE storage
    /\ notified' = IF outcome.added THEN notifyListeners ELSE <<>>
    /\ delivered' = <<>> /\ generated' = NoBatch
    /\ app' = IF called THEN clearSearch(app) ELSE app
    /\ UNCHANGED <<listeners, timers, catalog, modules>>

NoCall == [added |-> FALSE, branch |-> "noMatch", items |-> items, nextId |-> nextId]

\* Enter in the search field: the toast is shown only when addToCart returned
\* an entry; without a match the toast is an error.
handleSearchEnter(current, query, quantity) ==
    LET result == IF current # NoMatch THEN current ELSE searchExact(catalog, query) IN
    IF result # NoMatch
    THEN \E outcome \in {addOutcome(items, nextId, result.match, result.kitType, quantity)} :
            frontStep("handleSearchEnter", TRUE, outcome,
                      IF outcome.added THEN "success" ELSE "none")
    ELSE frontStep("handleSearchEnter", FALSE, NoCall, "error")

\* Enter in the quantity field: with a current match addToCart is called and
\* the toast is shown, whatever addToCart returned.
handleQuantityEnter(current, quantity) ==
    /\ current # NoMatch
    /\ \E outcome \in {addOutcome(items, nextId, current.match, current.kitType, quantity)} :
          frontStep("handleQuantityEnter", TRUE, outcome, "success")

\* parsed.forEach of processBulkPaste from line n on: [items, nextId,
\* successCount, errors] after the lines, each looked up and added in turn.
RECURSIVE bulkFrom(_, _, _)
bulkFrom(parsed, n, acc) ==
    IF n > Len(parsed) THEN acc
    ELSE LET result == searchExact(catalog, parsed[n].productCode) IN
         IF result = NoMatch
         THEN bulkFrom(parsed, n + 1, [acc EXCEPT !.errors = @ + 1])
         ELSE LET outcome == addOutcome(acc.items, acc.nextId, result.match,
                                        result.kitType, JsInt(parsed[n].quantity))
              IN  bulkFrom(parsed, n + 1,
                           IF outcome.added
                           THEN [acc EXCEPT !.items = outcome.items,
                                            !.nextId = outcome.nextId,
                                            !.successCount = @ + 1]
                           ELSE [acc EXCEPT !.errors = @ + 1])

\* text.split(sep): the pieces of text between the separators.
RECURSIVE split(_, _)
split(text, sep) ==
    IF \E k \in 1..Len(text) : text[k] = sep
    THEN LET k == CHOOSE p \in 1..Len(text) :
                     text[p] = sep /\ \A q \in 1..(p - 1) : text[q] # sep
         IN  <<SubSeq(text, 1, k - 1)>> \o split(SubSeq(text, k + 1, Len(text)), sep)
    ELSE <<text>>

IsDigit(c) == \E d \in 1..10 : DigitChars[d] = c

\* The number the leading digits of s stand for, after acc.
RECURSIVE digitsValue(_, _)
digitsValue(s, acc) ==
    IF s = <<>> \/ ~IsDigit(Head(s)) THEN acc
    ELSE digitsValue(Tail(s), 10 * acc + (CHOOSE d \in 0..9 : DigitChars[d + 1] = Head(s)))

\* parseInt of a cell of a line, which is undefined when the line has no
\* such cell: leading whitespace, a sign, then digits; NaN without a digit.
parseInt(cells, i) ==
    IF i > Len(cells) THEN [nan |-> TRUE, v |-> 0]
    ELSE LET t == TrimLeft(cells[i])
             signed == t # <<>> /\ Head(t) \in {"-", "+"}
             body == IF signed THEN Tail(t) ELSE t
         IN  IF body = <<>> \/ ~IsDigit(Head(body)) THEN [nan |-> TRUE, v |-> 0]
             ELSE [nan |-> FALSE,
                   v |-> IF signed /\ Head(t) = "-" THEN 0 - digitsValue(body, 0)
                         ELSE digitsValue(body, 0)]

\* parseBulkPaste(text): of every line that is not blank the first cell,
\* trimmed, and parseInt of the second cell, 1 when that is NaN or 0; the
\* lines with a code and a quantity of at least 1 are kept.
parseBulkPaste(text) ==
    LET NotBlank(line) == trim(line) # <<>>
        lines == SelectSeq(split(text, "\n"), NotBlank)
        itemOf(line) ==
            LET cells == split(line, "\t")
                number == parseInt(cells, 2)
            IN  [productCode |-> trim(cells[1]),
                 quantity |-> IF number.nan \/ number.v = 0 THEN 1 ELSE number.v]
        Kept(item) == item.productCode # <<>> /\ item.quantity >= 1
    IN  SelectSeq([n \in 1..Len(lines) |-> itemOf(lines[n])], Kept)

\* processBulkPaste with text in the textarea: a blank text is refused;
\* otherwise every parsed line is looked up and added, and the counts of the
\* added lines and of the errors are shown.
processBulkPaste(text) ==
    IF trim(text) = <<>>
    THEN /\ op' = [name |-> "processBulkPaste", branch |-> "noData", text |-> text]
         /\ ret' = [kind |-> "toast", type |-> "error", successCount |-> 0, errors |-> 0]
         /\ notified' = <<>> /\ delivered' = <<>> /\ generated' = NoBatch
         /\ UNCHANGED <<items, nextId, storage, listeners, timers, catalog, app, modules>>
    ELSE
    \E done \in {bulkFrom(parseBulkPaste(text), 1,
                          [items |-> items, nextId |-> nextId,
                           successCount |-> 0, errors |-> 0])} :
        /\ op' = [name |-> "processBulkPaste", branch |-> "ok", text |-> text]
        /\ ret' = [kind |-> "toast", type |-> IF done.errors = 0 THEN "success" ELSE "info",
                   successCount |-> done.successCount, errors |-> done.errors]
        /\ items' = done.items
        /\ nextId' = done.nextId
        /\ storage' = IF done.successCount > 0 THEN saveToStorage(done.items, done.nextId)
                      ELSE storage
        /\ notified' = Repeat(notifyListeners, done.successCount)
        /\ delivered' = <<>> /\ generated' = NoBatch
        /\ UNCHANGED <<listeners, timers, catalog, app, modules>>

\* The lines of a paste: a code alone, a code with a quantity cell that holds
\* 0, a negative number, no number or 2, a code the cart rejects, a code the
\* catalog does not hold, a blank line and a line without a code.
MaxLines == 2
BulkLines ==
    {<<"a", "b">>, <<"a", "b", "\t", "0">>, <<"a", "b", "\t", "-", "5">>,
     <<"a", "b", "\t", "x">>, <<"a", "b", "\t", "2">>, <<"n", "b">>,
     <<"z", "z", "\t", "2">>, <<" ">>, <<"\t", "5">>}

\* lines.join('\n')
RECURSIVE joinLines(_)
joinLines(lines) ==
    IF Len(lines) = 1 THEN lines[1]
    ELSE lines[1] \o <<"\n">> \o joinLines(Tail(lines))

\* The pastes: one to MaxLines lines.
BulkPastes == UNION {{joinLines(lines) : lines \in [1..n -> BulkLines]} : n \in 1..MaxLines}

SearchEnter ==
    \E current \in CurrentMatches, query \in FrontQueries, quantity \in FrontQuantities :
        handleSearchEnter(current, query, quantity)
QuantityEnter ==
    \E current \in CurrentMatches, quantity \in FrontQuantities :
        handleQuantityEnter(current, quantity)
BulkPaste == \E text \in BulkPastes : processBulkPaste(text)

NextFront == SearchEnter \/ QuantityEnter \/ BulkPaste \/ Remove

SpecFront == InitFront /\ [][NextFront]_vars

\* --------------------------------------- specification: the search field
\* A catalog in which a code stands in two records, and in two columns.
PickCatalog ==
    <<[RowPlain EXCEPT !.C = Str(<<"A", "B">>), !.D = EmptyCell, !.E = EmptyCell],
      [RowPlain EXCEPT !.C = EmptyCell, !.D = Str(<<"A", "B">>), !.E = Str(<<"A", "C">>),
                       !.F = Str(<<"K">>), !.ref = 2],
      [RowPlain EXCEPT !.C = Str(<<"A", "C", "D">>), !.D = EmptyCell, !.E = EmptyCell,
                       !.F = Str(<<"L">>), !.ref = 3]>>

\* What the user types into the search field.
TypedTexts == {<<"a">>, <<"a", "b">>, <<"a", "c">>, <<"a", "c", "d">>, <<"z", "z">>}

InitPick == InitWith(NoStorage, PickCatalog)

\* A step of the page that leaves the cart alone.
pageStep(name, branch, page) ==
    /\ op' = [name |-> name, branch |-> branch]
    /\ app' = page
    /\ ret' = [kind |-> "void"]
    /\ notified' = <<>> /\ delivered' = <<>> /\ generated' = NoBatch
    /\ UNCHANGED <<items, nextId, storage, listeners, timers, catalog, modules>>

\* The user changes the text of the search field.
TypeText == \E text \in TypedTexts : pageStep("input", "ok", inputEvent(app, text))

\* The debounce timer fires: the text the field holds now is searched and the
\* results are shown, then the exact match of that text is stored.
SearchTimeout ==
    /\ app.searchTimeout
    /\ \E query \in {app.searchInput} :
          pageStep("searchTimeout", "ok",
                   checkExactMatchAndSetQuantity(
                       displaySearchResults([app EXCEPT !.searchTimeout = FALSE],
                                            search(catalog, query)),
                       catalog, query))

\* A click on the row index of the results: the code of its matched column
\* goes into the search field and its exact match is stored; a row without a
\* code in that column changes nothing.
resultClick(index) ==
    LET rowData == app.results[index].row
        column == app.results[index].matchedColumn
        code == trim(codeText(rowData[column]))
    IN  /\ IF code = <<>>
           THEN /\ op' = [name |-> "resultClick", branch |-> "noCode", row |-> rowData.ref,
                          column |-> column]
                /\ app' = app
           ELSE /\ op' = [name |-> "resultClick", branch |-> "ok", row |-> rowData.ref,
                          column |-> column]
                /\ app' = checkExactMatchAndSetQuantity(
                              [app EXCEPT !.searchInput = code, !.results = <<>>],
                              catalog, code)
        /\ ret' = [kind |-> "void"]
        /\ notified' = <<>> /\ delivered' = <<>> /\ generated' = NoBatch
        /\ UNCHANGED <<items, nextId, storage, listeners, timers, catalog, modules>>

ResultClick == \E index \in 1..Len(app.results) : resultClick(index)

\* parseInt(quantityInput.value) || 1
quantityOf(page) == IF page.quantityInput = 0 THEN One ELSE JsInt(page.quantityInput)

\* Enter in the search field and in the quantity field.
PressEnter == handleSearchEnter(app.currentMatchResult, app.searchInput, quantityOf(app))
PressQuantityEnter == handleQuantityEnter(app.currentMatchResult, quantityOf(app))

NextPick ==
    TypeText \/ SearchTimeout \/ ResultClick \/ PressEnter \/ PressQuantityEnter \/ Clear

SpecPick == InitPick /\ [][NextPick]_vars

\* ----------------------------------------- specification: the print queue
\* The jobs queued at most.
MaxJobs == 3

\* The modules with QZ Tray connected and a printer in both slots.
ReadyModules ==
    [NewModules EXCEPT !.manager.isConnected = TRUE,
                       !.settings.stored = [present |-> TRUE, smallSlot |-> "S",
                                            bigSlot |-> "B"]]

InitRouter ==
    /\ items = <<>> /\ nextId = 1 /\ storage = NoStorage
    /\ listeners = <<"ok">>
    /\ op = [name |-> "new", branch |-> "none"]
    /\ ret = [kind |-> "void"]
    /\ notified = <<>> /\ generated = NoBatch /\ delivered = <<>> /\ timers = <<>>
    /\ catalog = DefaultCatalog
    /\ app = ReadyApp
    /\ modules = ReadyModules

\* A step of the print modules: the cart and the page stay as they are.
moduleBranch(name, branch, m) ==
    /\ op' = [name |-> name, branch |-> branch]
    /\ modules' = m
    /\ ret' = [kind |-> "void"]
    /\ notified' = <<>> /\ delivered' = <<>> /\ generated' = NoBatch
    /\ UNCHANGED <<items, nextId, storage, listeners, timers, catalog, app>>

moduleStep(name, m) == moduleBranch(name, "ok", m)

\* The jobs: a small, a big and a both job with documents, and a small job
\* without one.
JobInputs ==
    {[type |-> "small", zpl |-> TRUE], [type |-> "big", zpl |-> TRUE],
     [type |-> "both", zpl |-> TRUE], [type |-> "small", zpl |-> FALSE]}

QueuePrintJob ==
    /\ modules.jobs < MaxJobs
    /\ \E job \in JobInputs :
          moduleStep("queuePrintJob",
                     queuePrintJob(modules, [id |-> modules.jobs + 1, type |-> job.type,
                                             zpl |-> job.zpl]))

PrintSettled ==
    \E k \in 1..Len(modules.router.loops), ok \in BOOLEAN :
        /\ modules.router.loops[k].stage = "print"
        /\ moduleStep("printSettled", printSettled(modules, k, ok))

DelayOver ==
    \E k \in 1..Len(modules.router.loops) :
        /\ modules.router.loops[k].stage \in {"pause", "delay"}
        /\ moduleStep("delayOver", delayOver(modules, k))

ClearQueue == moduleStep("clearQueue", clearQueue(modules))

NextRouter == QueuePrintJob \/ PrintSettled \/ DelayOver \/ ClearQueue

SpecRouter == InitRouter /\ [][NextRouter]_vars

\* The queue without clearQueue, where every print and delay comes to an end.
NextQueue == QueuePrintJob \/ PrintSettled \/ DelayOver

SpecQueue ==
    InitRouter /\ [][NextQueue]_vars /\ WF_vars(PrintSettled) /\ WF_vars(DelayOver)

\* ------------------------------------- specification: the printer connection
\* The closes of the connection and the calls of forceReconnect at most.
MaxCloses == 2
MaxManual == 1

Closed ==
    /\ modules.manager.isConnected
    /\ modules.manager.closes < MaxCloses
    /\ moduleStep("closed", closed(modules))

ReconnectTimer ==
    \E k \in 1..Len(modules.manager.timers) :
        moduleStep("reconnectTimer", reconnectTimer(modules, k))

ForceReconnect ==
    /\ modules.manager.manual < MaxManual
    /\ moduleStep("forceReconnect", forceReconnect(modules))

WebsocketSettled ==
    \E k \in 1..Len(modules.manager.connecting), ok \in BOOLEAN :
        moduleStep("websocketSettled", websocketSettled(modules, k, ok))

NextReconnect == Closed \/ ReconnectTimer \/ ForceReconnect \/ WebsocketSettled

SpecReconnect == InitRouter /\ [][NextReconnect]_vars

\* ------------------------------------- specification: the printer settings
\* The printer names of the settings dialog; the empty name clears a slot.
PrinterNames == {"", "S", "B"}

InitSettings ==
    /\ items = <<>> /\ nextId = 1 /\ storage = NoStorage
    /\ listeners = <<"ok">>
    /\ op = [name |-> "new", branch |-> "none"]
    /\ ret = [kind |-> "void"]
    /\ notified = <<>> /\ generated = NoBatch /\ delivered = <<>> /\ timers = <<>>
    /\ catalog = DefaultCatalog
    /\ app = ReadyApp
    /\ modules = NewModules

SetSmallPrinter ==
    \E printerName \in PrinterNames, saves \in BOOLEAN :
        moduleBranch("setSmallPrinter", IF saves THEN "saved" ELSE "saveFailed",
                     setPrinter(modules, "smallSlot", printerName, saves))

SetBigPrinter ==
    \E printerName \in PrinterNames, saves \in BOOLEAN :
        moduleBranch("setBigPrinter", IF saves THEN "saved" ELSE "saveFailed",
                     setPrinter(modules, "bigSlot", printerName, saves))

ClearSettings == moduleStep("clearSettings", clearSettings(modules))

NextSettings == SetSmallPrinter \/ SetBigPrinter \/ ClearSettings

SpecSettings == InitSettings /\ [][NextSettings]_vars

\* ----------------------------------------- specification: printing both
\* The calls of printBoth at most.
MaxCalls == 2

\* The modules before a call: connected or not, with both printers, one or
\* none stored.
BothModules ==
    {[NewModules EXCEPT !.manager.isConnected = connected,
                        !.settings.stored = [present |-> TRUE, smallSlot |-> "S",
                                             bigSlot |-> big]] :
        connected \in BOOLEAN, big \in {"B", "null"}}
    \union {NewModules}

InitBoth ==
    /\ items = <<>> /\ nextId = 1 /\ storage = NoStorage
    /\ listeners = <<"ok">>
    /\ op = [name |-> "new", branch |-> "none"]
    /\ ret = [kind |-> "void"]
    /\ notified = <<>> /\ generated = NoBatch /\ delivered = <<>> /\ timers = <<>>
    /\ catalog = DefaultCatalog
    /\ app = ReadyApp
    /\ modules \in BothModules

PrintBoth ==
    /\ modules.both.stage \in {"none", "resolved", "threw"}
    /\ modules.both.n < MaxCalls
    /\ \E bigZpl \in BOOLEAN, smallZpl \in BOOLEAN :
          moduleStep("printBoth", printBoth(modules, bigZpl, smallZpl))

BothSettled ==
    /\ modules.both.stage \in {"big", "small"}
    /\ \E ok \in BOOLEAN : moduleStep("bothSettled", bothSettled(modules, ok))

BothDelayOver ==
    /\ modules.both.stage = "pause"
    /\ moduleStep("bothDelayOver", bothSmall(modules))

NextBoth == PrintBoth \/ BothSettled \/ BothDelayOver \/ Closed \/ ClearSettings

SpecBoth == InitBoth /\ [][NextBoth]_vars

\* ------------------------------------------- specification: the page load
\* What localStorage may hold when the page is opened.
PageStorages == {NoStorage, saveToStorage(<<StoredItem(1, RowPlain, "fork", One)>>, 2)}

\* The catalogs the file may hold (parseData refuses a file without records).
PageCatalogs == {FrontCatalog}

InitApp ==
    /\ items = <<>> /\ nextId = 1
    /\ storage \in PageStorages
    /\ listeners = <<>>
    /\ op = [name |-> "initializeApp", branch |-> "ok"]
    /\ ret = [kind |-> "void"]
    /\ notified = <<>> /\ generated = NoBatch /\ delivered = <<>> /\ timers = <<>>
    /\ catalog = <<>>
    /\ app = LoadingApp
    /\ modules = NewModules

\* One attempt of excelParser.loadExcelFile. A failed attempt is repeated
\* until maxRetries is reached; then the error reaches the catch of
\* initializeApp, which shows it. After a good attempt initializeApp makes
\* productSearch and starts the three fetches.
\* A mutant of loadExcelFile: one retry more.
loadExcelFile_oneMore(ok, data) ==
    /\ app.phase = "catalog"
    /\ IF ok
       THEN /\ catalog' = data
            /\ app' = [app EXCEPT !.phase = "templates", !.catalogLoaded = TRUE,
                                  !.productSearch = TRUE]
            /\ op' = [name |-> "loadExcelFile", branch |-> "ok"]
       ELSE /\ UNCHANGED catalog
            /\ IF app.retryCount <= maxRetries
               THEN /\ app' = [app EXCEPT !.retryCount = @ + 1]
                    /\ op' = [name |-> "loadExcelFile", branch |-> "retry"]
               ELSE /\ app' = [app EXCEPT !.phase = "failed", !.error = TRUE]
                    /\ op' = [name |-> "loadExcelFile", branch |-> "threw"]
    /\ ret' = [kind |-> "void"]
    /\ notified' = <<>> /\ generated' = NoBatch /\ delivered' = <<>>
    /\ UNCHANGED <<items, nextId, storage, listeners, timers, modules>>

loadExcelFile(ok, data) ==
    /\ app.phase = "catalog"
    /\ IF ok
       THEN /\ catalog' = data
            /\ app' = [app EXCEPT !.phase = "templates", !.catalogLoaded = TRUE,
                                  !.productSearch = TRUE]
            /\ op' = [name |-> "loadExcelFile", branch |-> "ok"]
       ELSE /\ UNCHANGED catalog
            /\ IF app.retryCount < maxRetries
               THEN /\ app' = [app EXCEPT !.retryCount = @ + 1]
                    /\ op' = [name |-> "loadExcelFile", branch |-> "retry"]
               ELSE /\ app' = [app EXCEPT !.phase = "failed", !.error = TRUE]
                    /\ op' = [name |-> "loadExcelFile", branch |-> "threw"]
    /\ ret' = [kind |-> "void"]
    /\ notified' = <<>> /\ generated' = NoBatch /\ delivered' = <<>>
    /\ UNCHANGED <<items, nextId, storage, listeners, timers, modules>>

\* The rest of initializeApp once the fetches are settled, okSet being the
\* templates that arrived: with all of them the generators and the cart are
\* made, updateCartUI is added, the event listeners are set up and the
\* loading indicator is removed; otherwise the catch shows the error.
loadTemplates(okSet) ==
    /\ app.phase = "templates"
    /\ IF allLoaded(okSet)
       THEN LET cart == loadFromStorage(storage) IN
            /\ items' = cart.items /\ nextId' = cart.nextId /\ storage' = cart.storage
            /\ listeners' = <<"ok">>
            /\ app' = [app EXCEPT !.phase = "ready", !.loaded = okSet,
                                  !.batchGenerator = TRUE, !.cart = TRUE,
                                  !.handlers = TRUE, !.loading = FALSE]
            /\ op' = [name |-> "initializeApp", branch |-> "ready"]
       ELSE /\ app' = [app EXCEPT !.phase = "failed", !.loaded = okSet, !.error = TRUE]
            /\ op' = [name |-> "initializeApp", branch |-> "threw"]
            /\ UNCHANGED <<items, nextId, storage, listeners>>
    /\ ret' = [kind |-> "void"]
    /\ notified' = <<>> /\ generated' = NoBatch /\ delivered' = <<>>
    /\ UNCHANGED <<timers, catalog, modules>>

LoadExcelFile == \E ok \in BOOLEAN, data \in PageCatalogs : loadExcelFile(ok, data)
LoadTemplates == \E okSet \in SUBSET TemplateNames : loadTemplates(okSet)

\* The listeners of the page exist once setupEventListeners has run: Enter in
\* the search field, a click on a remove button, on the clear button and on
\* the download button.
PageSearchEnter ==
    /\ app.handlers
    /\ \E query \in FrontQueries : handleSearchEnter(NoMatch, query, One)
PageRemove == app.handlers /\ Remove
PageClear == app.handlers /\ Clear
PageDownload ==
    /\ app.handlers
    /\ items # <<>>
    /\ \E batch \in {generateBatch(getItems)} : handleDownloadBig(batch, timers)

NextApp ==
    LoadExcelFile \/ LoadTemplates \/ PageSearchEnter \/ PageRemove \/ PageClear
    \/ PageDownload

SpecApp == InitApp /\ [][NextApp]_vars

\* The page load where every fetch settles and every retry timer fires.
SpecLoad == InitApp /\ [][NextApp]_vars /\ WF_vars(LoadExcelFile)

\* ------------------------------------------- specification: rendering
\* Templates with a placeholder twice, with placeholders no variable is named
\* after, with a placeholder that is not closed or in lower case, and without
\* placeholders; the templates themselves are fetched when the page loads.
RenderTemplates ==
    {<<"{", "N", "O", "T", "E", "S", "}", "|", "{", "N", "O", "T", "E", "S", "}">>,
     <<"{", "B", "R", "A", "N", "D", "_", "N", "A", "M", "E", "}", "-", "{", "U", "N", "K", "N", "O", "W", "N", "}", "-", "{", "N", "O", "T", "E", "S", "}", "{", "N", "O", "T", "E", "S", "}">>,
     <<"{", "Y", "E", "A", "R", "}", "{", "B", "R", "A", "N", "D", "_", "N", "A", "M", "E", "}">>,
     <<"{", "N", "O", "T", "E", "S">>,
     <<"{", "n", "o", "t", "e", "s", "}", "{", "N", "O", "T", "E", "S", "}">>,
     <<"^", "X", "A", "^", "X", "Z">>}

\* Values that are plain, empty, a number, or hold what replace() reads as a
\* pattern or what looks like a placeholder.
RenderValues ==
    {EmptyCell, Num(5),
     Str(<<"A">>),
     Str(<<"$", "&">>),
     Str(<<"{", "N", "O", "T", "E", "S", "}">>),
     Str(<<"$", "$">>),
     Str(<<"a", "$", "b">>)}

\* A template and the brand and the notes of the record are chosen.
InitRender ==
    /\ \E template \in RenderTemplates, brand \in RenderValues, notes \in RenderValues :
          op = [name |-> "input", branch |-> "ok", template |-> template,
                brand |-> brand, notes |-> notes]
    /\ items = <<>> /\ nextId = 1 /\ storage = NoStorage /\ listeners = <<"ok">>
    /\ ret = [kind |-> "void"] /\ notified = <<>> /\ generated = NoBatch
    /\ delivered = <<>> /\ timers = <<>> /\ catalog = DefaultCatalog
    /\ app = ReadyApp
    /\ modules = NewModules

renderStep(name, variables, zpl) ==
    /\ op' = [op EXCEPT !.name = name]
    /\ ret' = [kind |-> "zpl", vars |-> variables, val |-> zpl]
    /\ UNCHANGED <<items, nextId, storage, listeners, notified, generated,
                   delivered, timers, catalog, app, modules>>

\* batchGenerator.replaceVariables(template, { BRAND_NAME, NOTES })
Render ==
    /\ op.name = "input"
    /\ \E variables \in {<<<<"BRAND_NAME", op.brand>>, <<"NOTES", op.notes>>>>} :
          renderStep("replaceVariables", variables, replaceVariables(op.template, variables))

\* new ZBLGenerator(template).generate(record) for a record of this brand and
\* fork note.
RenderLabel ==
    /\ op.name = "input"
    /\ \E rowData \in {[RowPlain EXCEPT !.F = op.brand, !.P = op.notes]} :
          renderStep("generate", ZBL_prepareVariables(rowData).vars,
                     ZBL_generateWith(op.template, rowData).zpl)

NextRender == Render \/ RenderLabel

SpecRender == InitRender /\ [][NextRender]_vars

\* ------------------------------------------------ specification: sizes
\* The two classes with the size functions and the six roles they size.
Generators == {"ZBLGenerator", "BatchZBLGenerator"}
Roles == {"brand", "model", "brandSmall", "modelSmall", "kit", "notes"}

\* A text of n characters.
TextOf(n) == Str(Repeat(<<"x">>, n))

\* The text the size function of a role measures: the text itself, or for
\* the kit role the line made of the text as fork code and two empty codes.
measured(role, text) ==
    IF role = "kit" THEN kitLine(text, EmptyCell, EmptyCell) ELSE text.s

sizeBy(generator, role, text) ==
    IF generator = "ZBLGenerator"
    THEN CASE role = "brand"      -> ZBL_calculateBrandFontSize(text)
           [] role = "model"      -> ZBL_calculateModelFontSize(text)
           [] role = "brandSmall" -> ZBL_calculateBrandFontSizeSmall(text)
           [] role = "modelSmall" -> ZBL_calculateModelFontSizeSmall(text)
           [] role = "kit"        -> ZBL_calculateKitFontSize(text, EmptyCell, EmptyCell)
           [] role = "notes"      -> ZBL_calculateNotesFontSize(text)
    ELSE CASE role = "brand"      -> calculateBrandFontSize(text)
           [] role = "model"      -> calculateModelFontSize(text)
           [] role = "brandSmall" -> calculateBrandFontSizeSmall(text)
           [] role = "modelSmall" -> calculateModelFontSizeSmall(text)
           [] role = "kit"        -> calculateKitFontSize(text, EmptyCell, EmptyCell)
           [] role = "notes"      -> calculateNotesFontSize(text)

\* A text of n characters is about to be sized for a role by a generator.
InitSize ==
    /\ \E generator \in Generators, role \in Roles, n \in 0..MaxTextLen :
          op = [name |-> "text", branch |-> "ok", generator |-> generator,
                role |-> role, n |-> n]
    /\ items = <<>> /\ nextId = 1 /\ storage = NoStorage /\ listeners = <<"ok">>
    /\ ret = [kind |-> "void"] /\ notified = <<>> /\ generated = NoBatch
    /\ delivered = <<>> /\ timers = <<>> /\ catalog = DefaultCatalog
    /\ app = ReadyApp
    /\ modules = NewModules

sizeStep(generator, role, n) ==
    /\ op' = [name |-> "size", branch |-> "ok", generator |-> generator,
               role |-> role, n |-> n]
    /\ ret' = [kind |-> "size", len |-> Len(measured(role, TextOf(n))),
                val |-> sizeBy(generator, role, TextOf(n))]
    /\ UNCHANGED <<items, nextId, storage, listeners, notified, generated,
                   delivered, timers, catalog, app, modules>>

\* The size function is called on the text.
Size ==
    /\ op.name = "text"
    /\ sizeStep(op.generator, op.role, op.n)

\* The same function is called next on a longer text.
SizeLonger ==
    /\ op.name = "size"
    /\ \E n \in (op.n + 1)..MaxTextLen : sizeStep(op.generator, op.role, n)

NextSize == Size \/ SizeLonger

SpecSize == InitSize /\ [][NextSize]_vars

\* ------------------------------------------ specification: kit expansion
\* A cart that a previous session saved with one entry of any kit type and
\* any quantity from MIN_QTY to MAX_QTY.
InitExpand ==
    \E kitType \in validTypes, quantity \in MIN_QTY..MAX_QTY :
        InitFrom(saveToStorage(<<StoredItem(1, RowPlain, kitType, JsInt(quantity))>>, 2))

\* cart.calculateItemStickers(item) for an entry of the cart, as the cart
\* display calls it.
Expand ==
    \E i \in 1..Len(items) :
        /\ op' = [name |-> "calculateItemStickers", branch |-> "ok"]
        /\ ret' = [kind |-> "stickers", item |-> items[i],
                   val |-> calculateItemStickers(items[i])]
        /\ notified' = <<>>
        /\ generated' = NoBatch
        /\ delivered' = <<>>
        /\ UNCHANGED <<items, nextId, storage, listeners, timers, catalog, app, modules>>

NextExpand == Expand

SpecExpand == InitExpand /\ [][NextExpand]_vars

\* ------------------------------------------------------ claims on the cart
\* C1: starting from an empty cart, after any sequence of add, remove,
\* updateQuantity and clear the cart never holds more than MAX_ITEMS entries.
C1_SizeWithinMax == Len(items) <= MAX_ITEMS

\* An add was refused because the cart already held MAX_ITEMS entries.
C1_Witness ==
    /\ Len(items) = MAX_ITEMS
    /\ op = [name |-> "add", branch |-> "full"]

\* The quantity the claim expects stored for a finite number of v tenths: the
\* integer n in [1,99] that is the floor of v / 10, or the nearer end of the
\* range when the floor lies outside it.
ExpectedStored(v, stored) ==
    \E n \in 1..99 :
    /\ stored = JsInt(n)
    /\ \/ n * 10 <= v /\ v < n * 10 + 10
       \/ n = 1 /\ v < 10
       \/ n = 99 /\ v >= 1000

\* C2: after any sequence of add and updateQuantity calls with arbitrary
\* numeric quantities (negative, zero, fractional, above 99) every stored
\* quantity is an integer in [1,99]: the floor of the argument clamped to the
\* range; add with 150 stores 99 and add with 0 stores 1.
C2_QuantityClamped ==
    /\ [](\A i \in 1..Len(items) : items[i].quantity \in {JsInt(n) : n \in 1..99})
    /\ [][\A q \in QtyInputs :
            /\ addToCart(RowPlain, "fork", q) /\ ret'.kind = "item" =>
                 /\ q.t = "num" => ExpectedStored(q.v, ret'.val.quantity)
                 /\ q = QNum(1500) => ret'.val.quantity = JsInt(99)
                 /\ q = QNum(0) => ret'.val.quantity = JsInt(1)
            /\ \A itemId \in IdInputs :
                 updateQuantity(itemId, q) /\ op'.branch = "ok" /\ q.t = "num" =>
                     ExpectedStored(q.v, items'[findIndex(items, itemId)].quantity)
         ]_vars

\* The cart holds an entry stored with 99 and one stored with 1, and the last
\* operation was an add.
C2_Witness ==
    /\ op = [name |-> "add", branch |-> "ok"]
    /\ \E i, j \in 1..Len(items) : items[i].quantity = JsInt(99) /\ items[j].quantity = JsInt(1)

\* C3: the live entries have pairwise distinct ids, also after the id counter
\* has wrapped back to 1.
C3_DistinctIds ==
    \A i, j \in 1..Len(items) : i # j => items[i].id # items[j].id

\* What C4 counts as an empty field: one whose text has no characters.
NoText(cell) == ToChars(cell) = <<>>

C4_RejectedAsClaimed(rowData, kitType) ==
    \/ kitType \notin {"fork", "shock", "combi"}
    \/ ~rowData.isObject
    \/ NoText(rowData.C) /\ NoText(rowData.D) /\ NoText(rowData.E)
    \/ NoText(rowData.F)
    \/ NoText(rowData.G)
    \/ Len(items) >= MAX_ITEMS

\* C4 as claimed: add returns null and adds no entry exactly when the kit type
\* is not fork/shock/combi, the record has no code, no non-empty brand or no
\* non-empty model, or the cart holds MAX_ITEMS entries; otherwise it returns
\* the created entry.
C4_RejectsExactlyAsClaimed ==
    [][\A rowData \in CartRows, kitType \in KitInputs :
         addToCart(rowData, kitType, One) =>
            IF C4_RejectedAsClaimed(rowData, kitType)
            THEN ret'.kind = "null" /\ items' = items
            ELSE ret'.kind = "item" /\ items' = Append(items, ret'.val)
      ]_vars

\* '' and 0: what || replaces.
Falsy(cell) == (cell.k = "str" /\ cell.s = <<>>) \/ (cell.k = "num" /\ cell.n = 0)

\* Falsy, or text made of whitespace only.
Blank(cell) ==
    \/ Falsy(cell)
    \/ cell.k = "str" /\ \A i \in 1..Len(cell.s) : cell.s[i] = " "

C4_RejectedAmended(rowData, kitType) ==
    \/ kitType \notin {"fork", "shock", "combi"}
    \/ ~rowData.isObject
    \/ Falsy(rowData.C) /\ Falsy(rowData.D) /\ Falsy(rowData.E)
    \/ Blank(rowData.F)
    \/ Blank(rowData.G)
    \/ Len(items) >= MAX_ITEMS

\* C4 amended: for rows of string and number cells, add returns null and adds
\* no entry exactly when the kit type is not fork/shock/combi, all three codes
\* are empty or 0, the brand or the model is empty, 0 or whitespace only, or
\* the cart holds MAX_ITEMS entries; otherwise it returns the created entry.
C4_RejectsExactly ==
    [][\A rowData \in CartRows, kitType \in KitInputs :
         addToCart(rowData, kitType, One) =>
            IF C4_RejectedAmended(rowData, kitType)
            THEN ret'.kind = "null" /\ items' = items
            ELSE ret'.kind = "item" /\ items' = Append(items, ret'.val)
      ]_vars

\* An add was refused for its kit type, after adds that were accepted.
C4_Witness ==
    /\ op = [name |-> "add", branch |-> "kit"]
    /\ ret.kind = "null"
    /\ items # <<>>

\* C5: a rejected add changes neither the entries, nor the id counter, nor the
\* persisted snapshot, and invokes no listener.
C5_RejectedAddChangesNothing ==
    [][op'.name = "add" /\ ret'.kind = "null" =>
         /\ items' = items
         /\ nextId' = nextId
         /\ storage' = storage
         /\ notified' = <<>>
      ]_vars

\* An add was refused while the id counter stood past MAX_ID, with a snapshot
\* stored and a listener registered.
C5_Witness ==
    /\ op.name = "add"
    /\ ret.kind = "null"
    /\ nextId > MAX_ID
    /\ storage.present
    /\ listeners # <<>>

\* ------------------------------------------------- claims on listeners
\* The last operation changed the cart: an add that stored an entry, a remove
\* or an updateQuantity of an existing id, or a clear.
Mutated == op.name \in {"add", "remove", "update", "clear"} /\ op.branch = "ok"

\* C11: every successful mutating operation invokes every registered
\* listener exactly once, within the operation, in registration order.
C11_AllListenersInOrder ==
    Mutated => notified = [i \in 1..Len(listeners) |-> i]

\* An entry was removed while three listeners were registered.
C11_Witness ==
    /\ op = [name |-> "remove", branch |-> "ok"]
    /\ Len(listeners) = 3
    /\ Len(notified) = 3

\* C12: when a listener throws during notification, every listener
\* registered after it is still invoked, the mutation stays applied and is
\* stored, and the operation returns its normal result.
C12_ThrowingListenerIsolated ==
    (Mutated /\ \E i \in 1..Len(listeners) : listeners[i] = "throws") =>
        /\ \A i, j \in 1..Len(listeners) :
              (listeners[i] = "throws" /\ i < j) => \E k \in 1..Len(notified) : notified[k] = j
        /\ storage = saveToStorage(items, nextId)
        /\ op.name = "add" =>
              /\ ret.kind = "item"
              /\ items # <<>>
              /\ items[Len(items)] = ret.val
        /\ op.name \in {"remove", "update"} => ret = [kind |-> "bool", val |-> TRUE]
        /\ op.name = "clear" => items = <<>> /\ ret = [kind |-> "void"]

\* An entry was added while the second of three listeners was one that
\* throws.
C12_Witness ==
    /\ op = [name |-> "add", branch |-> "ok"]
    /\ listeners = <<"ok", "throws", "ok">>
    /\ notified = <<1, 2, 3>>
    /\ ret.kind = "item"

\* ------------------------------------------------- claims on restoring
\* C14: a new cart that finds a stored snapshot of another version, or one
\* with an entry that fails the validation of restored entries, discards the
\* stored state and starts empty; it never starts with a part of the stored
\* entries.
C14_NoPartialLoad ==
    op.name = "new" =>
        /\ op.branch = "cleared" => items = <<>> /\ storage = NoStorage
        /\ op.branch = "restored" =>
              \/ \A i \in 1..Len(storage.items) : restorable(storage.items[i])
              \/ items = <<>> /\ storage = NoStorage

\* C30: a cart restored from storage is a cart add could have built: every
\* entry has an integer quantity from MIN_QTY to MAX_QTY, there are at most
\* MAX_ITEMS entries, the ids are pairwise distinct, and nextId is greater
\* than every id.
C30_RestoredLikeAdded ==
    (op.name = "new" /\ op.branch = "restored") =>
        /\ \A i \in 1..Len(items) :
              /\ items[i].quantity.t = "num"
              /\ items[i].quantity.v % 10 = 0
              /\ items[i].quantity.v >= 10 * MIN_QTY
              /\ items[i].quantity.v <= 10 * MAX_QTY
        /\ Len(items) <= MAX_ITEMS
        /\ \A i, j \in 1..Len(items) : i # j => items[i].id # items[j].id
        /\ \A i \in 1..Len(items) : nextId > items[i].id

\* A successful add, remove, update or clear ran last.
CartChanged == op.name \in {"add", "remove", "update", "clear"} /\ op.branch = "ok"

\* C31: after every successful add, remove, updateQuantity or clear the stored
\* snapshot holds the entries of the cart in their order with their ids and
\* quantities and the id counter, and a new cart made from the snapshot holds
\* exactly the entries and the counter of the cart.
C31_SnapshotIsCart ==
    CartChanged =>
        /\ storage.present /\ storage.version = STORAGE_VERSION
        /\ storage.nextId = nextId
        /\ Len(storage.items) = Len(items)
        /\ \A i \in 1..Len(items) :
              /\ storage.items[i].id = items[i].id
              /\ storage.items[i].quantity = items[i].quantity
              /\ storage.items[i].kitType = items[i].kitType
        /\ LET cart == loadFromStorage(storage) IN
           /\ cart.items = items
           /\ cart.nextId = nextId

\* An update ran on a cart of two entries, and the snapshot holds both.
C31_Witness ==
    /\ op = [name |-> "update", branch |-> "ok"]
    /\ Len(items) = 2
    /\ Len(storage.items) = 2
    /\ loadFromStorage(storage).items = items

\* --------------------------------------- claims on the catalog and the cart
\* C13: once addToCart has stored an entry, a later change of the catalog
\* record it was made from, of a property of the record or of a value the
\* record holds, leaves the entry's rowData, productCode and productName as
\* they were.
C13_SourceMutationLeavesEntries ==
    [][catalog' # catalog =>
         /\ Len(items') = Len(items)
         /\ \A j \in 1..Len(items) :
               /\ items'[j].rowData = items[j].rowData
               /\ items'[j].productCode = items[j].productCode
               /\ items'[j].productName = items[j].productName]_vars

\* An entry made from the dated record whose source Date has since been set
\* to another time.
C13_Witness ==
    /\ op = [name |-> "setTime", branch |-> "ok"]
    /\ \E j \in 1..Len(items) :
          /\ items[j].rowData.C.k = "date"
          /\ items[j].productCode.k = "date"
          /\ catalog[1].C.k = "date"
          /\ catalog[1].C.n # items[j].rowData.C.n

\* ------------------------------------------------- claims on searching
CodeColumns == <<"C", "D", "E">>
CodeKits == <<"fork", "shock", "combi">>

\* Column CodeColumns[k] of record i equals the trimmed query when case is
\* ignored.
ExactHit(i, k) ==
    toUpperCase(codeText(catalog[i][CodeColumns[k]])) = toUpperCase(trim(op.query))

\* C15: searchExact returns the first record of the catalog of which a code
\* equals the trimmed query, case ignored, with the kit type of the first of
\* fork, shock, combi that does so on that record; it returns null when the
\* trimmed query is empty or no record has such a code.
C15_ExactFirstRecordFirstField ==
    op.name = "searchExact" =>
        IF \/ trim(op.query) = <<>>
           \/ ~\E i \in 1..Len(catalog), k \in 1..3 : ExactHit(i, k)
        THEN ret = NoMatch
        ELSE \E i \in 1..Len(catalog), k \in 1..3 :
                /\ ExactHit(i, k)
                /\ \A j \in 1..(i - 1), m \in 1..3 : ~ExactHit(j, m)
                /\ \A m \in 1..(k - 1) : ~ExactHit(i, m)
                /\ ret = Match(catalog[i], CodeKits[k])

\* The first record matches by its shock code while a later record matches
\* by its fork code.
C15_Witness ==
    /\ op.name = "searchExact"
    /\ ret.kind = "match" /\ ret.kitType = "shock" /\ ret.match.ref = 1
    /\ \E j \in 2..Len(catalog) : ExactHit(j, 1)

\* The records of which a code contains the trimmed query, case ignored.
FuzzyHits ==
    {i \in 1..Len(catalog) :
        \E k \in 1..3 : includes(toLowerCase(codeText(catalog[i][CodeColumns[k]])),
                                  toLowerCase(trim(op.query)))}

\* C16: search returns the first MAX_RESULTS, in catalog order, of the
\* records of which a code contains the trimmed query, case ignored, and
\* nothing when the trimmed query has fewer than 2 characters.
C16_FuzzyFirstInOrder ==
    op.name = "search" =>
        IF Len(trim(op.query)) < 2 THEN ret.val = <<>>
        ELSE /\ Len(ret.val) = IF Cardinality(FuzzyHits) < MAX_RESULTS
                               THEN Cardinality(FuzzyHits) ELSE MAX_RESULTS
             /\ \A n \in 1..Len(ret.val) :
                   \E i \in FuzzyHits :
                      /\ Cardinality({j \in FuzzyHits : j < i}) = n - 1
                      /\ ret.val[n] = catalog[i]

\* More records match than are returned.
C16_Witness ==
    /\ op.name = "search"
    /\ Cardinality(FuzzyHits) > MAX_RESULTS
    /\ Len(ret.val) = MAX_RESULTS

\* ----------------------------------------------------- claims on sizes
\* The (maxLength, pointSize) thresholds of a role, least first, and the size
\* when no threshold reaches the length.
Thresholds(role) ==
    CASE role = "brand"      -> <<<<25, 50>>, <<40, 40>>, <<60, 35>>, <<80, 30>>>>
      [] role = "model"      -> <<<<25, 50>>, <<40, 40>>, <<60, 32>>, <<80, 26>>,
                                  <<100, 22>>, <<130, 20>>>>
      [] role = "brandSmall" -> <<<<20, 35>>, <<30, 30>>, <<50, 25>>, <<70, 22>>>>
      [] role = "modelSmall" -> <<<<20, 35>>, <<30, 30>>, <<50, 24>>, <<70, 20>>,
                                  <<90, 18>>, <<120, 16>>>>
      [] role = "kit"        -> <<<<40, 28>>, <<60, 26>>, <<80, 24>>, <<100, 22>>,
                                  <<120, 20>>>>
      [] role = "notes"      -> <<<<80, 26>>, <<120, 24>>, <<160, 22>>, <<200, 20>>,
                                  <<250, 18>>>>

SmallestSize(role) ==
    CASE role = "brand" -> 25 [] role = "model" -> 18 [] role = "brandSmall" -> 18
      [] role = "modelSmall" -> 14 [] role = "kit" -> 18 [] role = "notes" -> 16

Bracket(role, len) ==
    LET T == Thresholds(role) IN
    IF \E k \in 1..Len(T) : T[k][1] >= len
    THEN T[CHOOSE k \in 1..Len(T) :
              T[k][1] >= len /\ \A j \in 1..(k - 1) : T[j][1] < len][2]
    ELSE SmallestSize(role)

\* C17: in both generators, for each of the six roles and every length of the
\* measured text, the size is the point size of the first threshold whose
\* maxLength is at least the length, or the smallest size of the role when
\* there is none.
C17_SizeIsFirstThreshold ==
    ret.kind = "size" => ret.val = Bracket(op.role, ret.len)

\* A model text of exactly 25 characters sized 50 by the batch generator.
C17_Witness ==
    /\ ret.kind = "size"
    /\ op.generator = "BatchZBLGenerator" /\ op.role = "model"
    /\ ret.len = 25 /\ ret.val = 50

\* C18: when a role's size function sizes a text and then a longer one, the
\* second size is not larger than the first.
C18_LongerNeverLarger ==
    [][(ret.kind = "size" /\ ret'.kind = "size" /\ ret.len < ret'.len)
           => ret'.val <= ret.val]_vars

\* A notes text of 160 characters or fewer sized, then one of more than 160
\* and at most 200 sized smaller.
C18_Witness ==
    /\ ret.kind = "size" /\ op.role = "notes"
    /\ ret.len > 160 /\ ret.len <= 200
    /\ ret.val = 20

\* The variables of the label just generated and the record they were made
\* from.
LabelMade == op.name = "generate" /\ op.branch = "ok"
LabelVar(key) == Lookup(ret.vars, key)
LabelRow == catalog[op.row]

\* The texts measured: the value after defaulting, before escaping, as the
\* label shows it.
BrandText == ToChars(OrElse(LabelRow.F, NA))
ModelText == ToChars(OrElse(LabelRow.G, NA))
NotesText == combineNotes(LabelRow.P, LabelRow.V)
KitText ==
    kitLine(OrElse(LabelRow.C, NONE), OrElse(LabelRow.D, NONE), OrElse(LabelRow.E, NONE))

\* escapeZpl lengthens the text.
Lengthened(text) == Len(escapeChars(text)) > Len(text)

\* C19: every font size among the variables of a label is the size of the
\* bracket of the length of the text it belongs to, taken after defaulting
\* and before escaping, also when the text has characters that escaping
\* lengthens; the text variables hold the escaped texts.
C19_SizesFromUnescapedText ==
    LabelMade =>
        /\ LabelVar("BRAND_FONT_SIZE") = Num(Bracket("brand", Len(BrandText)))
        /\ LabelVar("BRAND_FONT_SIZE_SMALL") = Num(Bracket("brandSmall", Len(BrandText)))
        /\ LabelVar("MODEL_FONT_SIZE") = Num(Bracket("model", Len(ModelText)))
        /\ LabelVar("MODEL_FONT_SIZE_SMALL") = Num(Bracket("modelSmall", Len(ModelText)))
        /\ LabelVar("NOTES_FONT_SIZE") = Num(Bracket("notes", Len(NotesText)))
        /\ LabelVar("KIT_FONT_SIZE") = Num(Bracket("kit", Len(KitText)))
        /\ LabelVar("BRAND_NAME") = Str(escapeChars(BrandText))
        /\ LabelVar("MODEL_TYPE") = Str(escapeChars(ModelText))
        /\ LabelVar("NOTES").s = escapeChars(NotesText)

\* The text a code shows as in the kit line: the code, or NONE for a missing
\* one.
CodeShown(cell) == IF Truthy(cell) THEN ToChars(cell) ELSE <<"N", "O", "N", "E">>

KitLineLength ==
    39 + Len(CodeShown(LabelRow.C)) + Len(CodeShown(LabelRow.D)) + Len(CodeShown(LabelRow.E))

\* C20: the kit font size of the batch generator is the size of the bracket
\* of the length of the kit line, which is 39 plus the lengths of the three
\* codes, NONE standing for a missing code; for the codes SP-HD14-SSA001REV,
\* SP-HD14-SSD001REV and SP-HD14-SSE001REV that length is 90 and the size 22.
C20_KitLineSize ==
    (op.name = "prepare" /\ op.branch = "ok") =>
        /\ LabelVar("KIT_FONT_SIZE") = Num(Bracket("kit", KitLineLength))
        /\ (/\ LabelRow.C = LongForkCode
            /\ LabelRow.D = LongShockCode
            /\ LabelRow.E = LongCombiCode)
           => KitLineLength = 90 /\ LabelVar("KIT_FONT_SIZE") = Num(22)

\* The variables prepared for the record with the three long codes.
C20_Witness ==
    /\ op.name = "prepare" /\ op.branch = "ok"
    /\ LabelRow.C = LongForkCode /\ LabelRow.D = LongShockCode /\ LabelRow.E = LongCombiCode
    /\ LabelVar("FORKCODE") = LongForkCode
    /\ LabelVar("KIT_FONT_SIZE") = Num(22)

\* The display variables, the column each is read from, and its default.
DisplayColumns ==
    <<<<"BRAND_NAME", "F">>, <<"MODEL_TYPE", "G">>, <<"YEAR", "H">>,
      <<"FORK_SPRING", "I">>, <<"SHOCK_SPRING", "Q">>, <<"FORKCODE", "C">>,
      <<"SHOCKCODE", "D">>, <<"COMBICODE", "E">>, <<"OIL_TYPE", "J">>,
      <<"OIL_LEVEL", "K">>, <<"FORK_PRELOAD", "L">>, <<"SHOCK_PRELOAD", "R">>,
      <<"FORK_SAG", "M">>, <<"SHOCK_SAG", "S">>, <<"FORK_COMPRESSION", "N">>,
      <<"SHOCK_COMPRESSION", "T">>>>

DefaultOf(key) ==
    IF key \in {"FORKCODE", "SHOCKCODE", "COMBICODE"}
    THEN Str(<<"N", "O", "N", "E">>) ELSE Str(<<"N", "/", "A">>)

VarsPrepared == op.name = "prepare" /\ op.branch = "ok"

\* C21: every display variable is the value of its cell when the cell is not
\* empty, and the default of the field (NONE for a code, N/A otherwise) when
\* the cell is empty, for cells that are strings or numbers, the number 0
\* among them.
C21_DefaultExactlyWhenEmpty ==
    VarsPrepared =>
        \A n \in 1..Len(DisplayColumns) :
            LET key == DisplayColumns[n][1]
                cell == LabelRow[DisplayColumns[n][2]]
            IN  LabelVar(key) = IF cell = EmptyCell THEN DefaultOf(key) ELSE cell

\* s is the text t without the blanks at its two ends.
TrimmedOf(t, s) ==
    \E i \in 1..(Len(t) + 1), j \in 0..Len(t) :
        /\ s = SubSeq(t, i, j)
        /\ \A k \in 1..(i - 1) : IsSpace(t[k])
        /\ \A k \in (j + 1)..Len(t) : IsSpace(t[k])
        /\ s # <<>> => ~IsSpace(s[1]) /\ ~IsSpace(s[Len(s)])

Without(its, k) == SubSeq(its, 1, k - 1) \o SubSeq(its, k + 1, Len(its))

\* The entries a and b differ in nothing but the quantity.
SameButQuantity(a, b) == [a EXCEPT !.quantity = b.quantity] = b

\* C27: the entries of the cart are the added entries that were not removed,
\* in the order of their insertion: an add appends one entry or changes
\* nothing, a remove takes out at most one entry and keeps the others in
\* their order, and an update changes the quantity of at most one entry and
\* nothing else.
C27_InsertionOrderKept ==
    [][/\ op'.name = "add" =>
            \/ items' = items
            \/ Len(items') = Len(items) + 1 /\ SubSeq(items', 1, Len(items)) = items
       /\ op'.name = "remove" =>
            \/ items' = items
            \/ \E k \in 1..Len(items) : items' = Without(items, k)
       /\ op'.name = "update" =>
            /\ Len(items') = Len(items)
            /\ \A j \in 1..Len(items) : SameButQuantity(items[j], items'[j])
            /\ Cardinality({j \in 1..Len(items) : items'[j] # items[j]}) <= 1]_vars

\* ----------------------------------------------- claims on the front end
\* C25: when the page reports an item as added (the success toast of Enter in
\* the search field or in the quantity field, or a count of n added items of
\* the bulk paste), the operation added that many entries to the cart.
C25_SuccessMeansAdded ==
    [][/\ (/\ op'.name \in {"handleSearchEnter", "handleQuantityEnter"}
           /\ ret'.type = "success")
          => Len(items') = Len(items) + 1 /\ SubSeq(items', 1, Len(items)) = items
       /\ op'.name = "processBulkPaste"
          => /\ Len(items') = Len(items) + ret'.successCount
             /\ SubSeq(items', 1, Len(items)) = items]_vars

\* The lines of text that are not blank.
LinesOf(text) ==
    Cardinality({n \in 1..Len(split(text, "\n")) : trim(split(text, "\n")[n]) # <<>>})

\* C34: a bulk paste accounts for every line that is not blank: the count of
\* the added lines plus the count of the errors is the number of those lines.
C34_EveryLineAccounted ==
    (op.name = "processBulkPaste" /\ op.branch = "ok") =>
        ret.successCount + ret.errors = LinesOf(op.text)

\* ------------------------------------------------ claims on the page load
\* C40: loadExcelFile comes to an end: it makes at most maxRetries + 1 load
\* attempts, an attempt that succeeds ends it with true, a failed attempt is
\* retried while fewer than maxRetries retries were made, and the failed
\* attempt after the last retry throws.
C40_LoadTerminates ==
    /\ [](app.retryCount <= maxRetries)
    /\ [][op'.name = "loadExcelFile" =>
            /\ app.phase = "catalog"
            /\ op'.branch = "ok" => app'.phase = "templates" /\ app'.retryCount = app.retryCount
            /\ op'.branch = "retry" =>
                  /\ app.retryCount < maxRetries
                  /\ app'.retryCount = app.retryCount + 1
                  /\ app'.phase = "catalog"
            /\ op'.branch = "threw" => app.retryCount = maxRetries /\ app'.phase = "failed"]_vars
    /\ [](app.phase # "catalog" => [](app.phase # "catalog"))
    /\ <>(app.phase # "catalog")

\* The fourth attempt failed and loadExcelFile threw.
C40_Witness ==
    /\ op.name = "loadExcelFile" /\ op.branch = "threw"
    /\ app.retryCount = maxRetries
    /\ app.phase = "failed"

\* ----------------------------------------------- claims on the print queue
\* C35: at most one loop of processQueue is active, so at most one queued job
\* is with the printers at a time, and the jobs reach the printers in the
\* order in which they were queued.
C35_OneLoopInOrder ==
    /\ Len(modules.router.loops) <= 1
    /\ \A i, j \in 1..Len(modules.sent) : i < j => modules.sent[i].id <= modules.sent[j].id

\* The ids of the jobs taken from the queue so far.
AttemptedIds == {modules.attempted[i] : i \in 1..Len(modules.attempted)}

QueueIdle ==
    /\ modules.router.printQueue = <<>>
    /\ ~modules.router.isProcessingQueue
    /\ modules.router.loops = <<>>

C38_ReconnectBounded ==
    /\ modules.manager.attempts <= maxReconnectAttempts
    /\ \A n \in 1..Len(modules.manager.delays) :
          n <= maxReconnectAttempts /\ modules.manager.delays[n] = reconnectDelay * 2 ^ (n - 1)
    /\ modules.manager.failed =>
          modules.manager.timers = <<>> /\ modules.manager.connecting = <<>>
    /\ modules.manager.isConnected => modules.manager.reconnectAttempts = 0

\* The claim without the calls of forceReconnect.
C38_WithoutManual == modules.manager.manual = 0 => C38_ReconnectBounded

\* Three connects of the timers failed and 'failed' was notified.
C38_AllFailed ==
    /\ modules.manager.failed
    /\ modules.manager.attempts = maxReconnectAttempts
    /\ modules.manager.delays = <<2000, 4000, 8000>>

\* C39: with nothing stored getSmallPrinter and getBigPrinter return null,
\* whatever was set, saved or failed to save before, and a setSmallPrinter or
\* setBigPrinter whose save fails leaves what loadSettings returns unchanged.
C39_NothingStoredNothingSet ==
    /\ [](~modules.settings.stored.present =>
              getSmallPrinter(modules) = "null" /\ getBigPrinter(modules) = "null")
    /\ [][op'.branch = "saveFailed" => loadSettings(modules') = loadSettings(modules)]_vars

\* What the call of printBoth under way has sent so far.
SentByCall ==
    SelectSeq(modules.sent, LAMBDA e : e.id = modules.both.n)

\* C37: a call of printBoth sends the big document ahead of the small one,
\* sends no small document once the big print failed, and sends nothing
\* unless QZ Tray was connected and both slots held a printer when it was
\* called.
C37_BigThenSmall ==
    /\ \A i, j \in 1..Len(SentByCall) :
          i < j => SentByCall[i].size = "big" /\ SentByCall[j].size = "small"
    /\ modules.both.bigFailed => \A i \in 1..Len(SentByCall) : SentByCall[i].size # "small"
    /\ SentByCall # <<>> => modules.both.ready

\* Both documents of a call were sent, the big one first.
C37_Witness ==
    /\ modules.both.stage = "resolved"
    /\ Len(SentByCall) = 2
    /\ SentByCall[1].size = "big" /\ SentByCall[2].size = "small"

\* A big print failed and the call ended with the big document sent alone.
C37_BigFailed ==
    /\ modules.both.bigFailed /\ modules.both.smallZpl
    /\ modules.both.stage = "threw"
    /\ Len(SentByCall) = 1

\* ---------------------------------------------- claims on the search field
\* C32: whenever the stored exact match is not null it is the exact match of
\* the text the search field holds, so that Enter adds the record and the kit
\* type that match the text shown.
C32_MatchIsOfTextShown ==
    /\ [](app.currentMatchResult # NoMatch
            => app.currentMatchResult = searchExact(catalog, app.searchInput))
    /\ [][(op'.name = "handleSearchEnter" /\ op'.branch = "ok") =>
            /\ searchExact(catalog, app.searchInput) # NoMatch
            /\ items'[Len(items')].kitType = searchExact(catalog, app.searchInput).kitType
            /\ items'[Len(items')].rowData
                 = deepClone(searchExact(catalog, app.searchInput).match)]_vars

\* A match is stored while the debounce timer of a later input is pending:
\* the user typed, the timer fired, the user clicked a row, typed on and
\* clicked a row of the results still shown... the stored match is that of
\* the field.
C32_Witness ==
    /\ app.currentMatchResult # NoMatch
    /\ app.searchTimeout
    /\ op.name = "resultClick"
    /\ items # <<>>

\* The kit type of a code column.
KitOfColumn(column) ==
    CASE column = "C" -> "fork" [] column = "D" -> "shock" [] OTHER -> "combi"

\* C33: when the user clicks a row of the results and then presses Enter, the
\* entry added to the cart holds the record of that row and the kit type of
\* the column that matched in it.
C33_ClickedRecordAdded ==
    [][(/\ op.name = "resultClick" /\ op.branch = "ok"
        /\ op'.name \in {"handleSearchEnter", "handleQuantityEnter"}
        /\ op'.branch = "ok")
       => /\ items'[Len(items')].rowData = deepClone(catalog[op.row])
          /\ items'[Len(items')].kitType = KitOfColumn(op.column)]_vars

\* ------------------------------------------------ claims on the page load
\* The catalog or one of the templates did not load, and initializeApp is over.
LoadFailed ==
    /\ app.phase \notin {"catalog", "templates"}
    /\ ~app.catalogLoaded \/ app.loaded # TemplateNames

\* C26: when the load of the catalog or of one of the three templates fails,
\* the page never becomes ready: no batch generator and no cart are made, no
\* listener of the page is set up, so that no step follows the failure; the
\* failure shows as an error, which a page that loaded does not show.
C26_FailedNeverReady ==
    /\ [](LoadFailed => /\ ~app.batchGenerator /\ ~app.cart /\ ~app.handlers
                        /\ app.phase = "failed" /\ app.error
                        /\ items = <<>> /\ generated = NoBatch /\ timers = <<>>
                        /\ (~app.catalogLoaded => catalog = <<>>))
    /\ [][~LoadFailed]_vars
    /\ [](app.phase = "ready" => ~app.error /\ ~app.loading)

C26_Witness ==
    /\ app.phase = "failed" /\ app.catalogLoaded /\ catalog # <<>>
    /\ app.loaded = {"big", "smallFork"}
    /\ app.error

\* ------------------------------------------------- claims on rendering
Rendered == ret.kind = "zpl"

\* The variable whose placeholder stands at position i of the template, or 0.
PlaceholderAt(template, variables, i) ==
    IF \E n \in 1..Len(variables) : matchesAt(template, placeholder(variables[n][1]), i)
    THEN CHOOSE n \in 1..Len(variables) : matchesAt(template, placeholder(variables[n][1]), i)
    ELSE 0

\* The template from position i on with every placeholder of a variable
\* replaced by the text of its value, all at once: what is put in is not
\* looked at again.
RECURSIVE Substituted(_, _, _)
Substituted(template, variables, i) ==
    IF i > Len(template) THEN <<>>
    ELSE LET n == PlaceholderAt(template, variables, i) IN
         IF n = 0 THEN <<template[i]>> \o Substituted(template, variables, i + 1)
         ELSE ToChars(variables[n][2])
              \o Substituted(template, variables, i + Len(placeholder(variables[n][1])))

\* A value with no $ and no brace.
PlainValue(value) ==
    \A k \in 1..Len(ToChars(value)) : ToChars(value)[k] \notin {"$", "{", "}"}

C29_ValuesVerbatim ==
    Rendered => ret.val = Substituted(op.template, ret.vars, 1)

\* ---------------------------------------------- claims on the label output
\* C6: the totals of the cart summary (totalBig, totalSmallFork,
\* totalSmallShock, totalSmall, grandTotal) equal the counts (big, smallFork,
\* smallShock, totalSmall, grandTotal) that generateBatch returned for the
\* same entries.
C6_SummaryEqualsBatchCounts ==
    generated.kind = "batch" =>
        LET summary == getCartSummary(items)
            counts == generated.val.counts
        IN  /\ summary.totalBig = counts.big
            /\ summary.totalSmallFork = counts.smallFork
            /\ summary.totalSmallShock = counts.smallShock
            /\ summary.totalSmall = counts.totalSmall
            /\ summary.grandTotal = counts.grandTotal

\* A batch was generated for a cart that holds a combi and a shock entry, one
\* of them with a quantity above 1.
C6_Witness ==
    /\ generated.kind = "batch"
    /\ \E i, j \in 1..Len(items) :
          /\ items[i].kitType = "combi"
          /\ items[j].kitType = "shock"
          /\ items[i].quantity = JsInt(2)
    /\ generated.val.counts.grandTotal.v > 0

\* How many c in text are not escaped: not after an odd run of backslashes,
\* and, for a backslash, not the escape of the control character after it.
backslashesBefore(text, p) ==
    CHOOSE n \in 0..(p - 1) :
        /\ \A k \in 1..n : text[p - k] = "\\"
        /\ n = p - 1 \/ text[p - n - 1] # "\\"

unescapedCount(text, c) ==
    Cardinality({p \in 1..Len(text) :
        /\ text[p] = c
        /\ backslashesBefore(text, p) % 2 = 0
        /\ ~(c = "\\" /\ p < Len(text) /\ text[p + 1] \in zplControl)})

occurrences(text, c) == Cardinality({p \in 1..Len(text) : text[p] = c})

\* label has the directives of template and no other control character that
\* is not escaped.
OnlyTemplateDirectives(label, template) ==
    /\ \A c \in {"^", "~", "\\"} : unescapedCount(label, c) = occurrences(template, c)
    /\ \A c \in {"{", "}"} : unescapedCount(label, c) = 0

\* C7: in every label of a generated batch each ZPL control character that
\* comes from a record field is escaped, so the label has exactly the
\* directives of its template.
C7_RecordTextEscaped ==
    generated.kind = "batch" =>
        /\ \A i \in 1..Len(generated.val.bigStickers) :
              OnlyTemplateDirectives(generated.val.bigStickers[i], templates.big)
        /\ \A i \in 1..Len(generated.val.smallStickers) :
              \/ OnlyTemplateDirectives(generated.val.smallStickers[i], templates.smallFork)
              \/ OnlyTemplateDirectives(generated.val.smallStickers[i], templates.smallShock)

\* An entry whose record has a cell that cannot be converted to text.
Malformed(item) ==
    \E field \in Columns : item.rowData[field] = BadObj

\* C8: while the cart holds an entry that cannot be rendered, no operation
\* obtains a batch and none hands a document to a download, print or PDF
\* sink, also not for the entries before the failing one.
C8_AllOrNothing ==
    (\E i \in 1..Len(items) : Malformed(items[i])) =>
        /\ generated.kind # "batch"
        /\ delivered = <<>>

\* handleDownloadBig ran on a cart whose second entry cannot be rendered and
\* whose first entry can; generateBatch raised.
C8_Witness ==
    /\ op = [name |-> "handleDownloadBig", branch |-> "failed"]
    /\ generated.kind = "threw"
    /\ Len(items) >= 2
    /\ ~Malformed(items[1])
    /\ Malformed(items[2])

\* C9: the number of labels rendered into the big output equals counts.big
\* and the number rendered into the small output equals counts.smallFork +
\* counts.smallShock, where counts.big is the sum of the quantities.
C9_LabelsEqualCounts ==
    generated.kind = "batch" =>
        LET counts == generated.val.counts IN
        /\ JsInt(Len(generated.val.bigStickers)) = counts.big
        /\ JsInt(Len(generated.val.smallStickers))
             = Plus(counts.smallFork, counts.smallShock)

\* The label of the cart entry made from a template.
LabelFrom(entry, template) ==
    replaceVariables(template, Batch_prepareVariables(entry.rowData).vars)

ForkCopies(entry) == IF entry.kitType \in {"fork", "combi"} THEN 2 ELSE 0
ShockCopies(entry) == IF entry.kitType \in {"shock", "combi"} THEN 1 ELSE 0

\* The big labels of one entry: one per kit unit.
BigOf(entry) ==
    Only({[k \in 1..LoopCount(entry.quantity) |-> big]
          : big \in {LabelFrom(entry, templates.big)}})

\* The small labels of one entry: per kit unit the fork copies, then the
\* shock copy.
SmallOf(entry) ==
    LET per == ForkCopies(entry) + ShockCopies(entry) IN
    Only({[k \in 1..(LoopCount(entry.quantity) * per) |->
              IF (k - 1) % per < ForkCopies(entry) THEN fork ELSE shock]
          : fork \in {LabelFrom(entry, templates.smallFork)},
            shock \in {LabelFrom(entry, templates.smallShock)}})

\* The labels of the first n entries, entry by entry.
RECURSIVE BigUpTo(_, _)
BigUpTo(its, n) == IF n = 0 THEN <<>> ELSE BigUpTo(its, n - 1) \o BigOf(its[n])
RECURSIVE SmallUpTo(_, _)
SmallUpTo(its, n) == IF n = 0 THEN <<>> ELSE SmallUpTo(its, n - 1) \o SmallOf(its[n])

\* C28: in the big and in the small output the labels of an entry come
\* before the labels of every entry after it in the cart, and the small
\* labels of an entry are, per kit unit, its fork copies and then its shock
\* copy.
C28_LabelsInCartOrder ==
    generated.kind = "batch" =>
        /\ generated.val.bigStickers = BigUpTo(items, Len(items))
        /\ generated.val.smallStickers = SmallUpTo(items, Len(items))
        /\ generated.val.bigZpl = join(generated.val.bigStickers)
        /\ generated.val.smallZpl = join(generated.val.smallStickers)

\* A batch was generated for a cart of two entries with different labels, the
\* first a combi kit of two units: fork, fork, shock, fork, fork, shock, and
\* then the labels of the second entry.
C28_Witness ==
    /\ generated.kind = "batch"
    /\ Len(items) = 2
    /\ items[1].kitType = "combi" /\ items[1].quantity = JsInt(2)
    /\ BigOf(items[1]) # <<>> /\ BigOf(items[2]) # <<>>
    /\ Head(BigOf(items[1])) # Head(BigOf(items[2]))
    /\ Len(generated.val.smallStickers) > 6
    /\ generated.val.smallStickers[2] # generated.val.smallStickers[3]
    /\ generated.val.smallStickers[7] # generated.val.smallStickers[1]

C10_Rule(kitType) ==
    CASE kitType = "fork" -> <<1, 2, 0>>
      [] kitType = "shock" -> <<1, 0, 1>>
      [] kitType = "combi" -> <<1, 2, 1>>

\* C10: calculateItemStickers returns each component of the kit rule (fork
\* 1, 2, 0; shock 1, 0, 1; combi 1, 2, 1) times the quantity, for every kit
\* type and every quantity from 1 to 99, and changes nothing in the cart.
C10_ExpandMultipliesRule ==
    /\ [](op.name = "calculateItemStickers" =>
            \E quantity \in 1..99 :
                /\ ret.item.quantity = JsInt(quantity)
                /\ ret.val.big = JsInt(C10_Rule(ret.item.kitType)[1] * quantity)
                /\ ret.val.smallFork = JsInt(C10_Rule(ret.item.kitType)[2] * quantity)
                /\ ret.val.smallShock = JsInt(C10_Rule(ret.item.kitType)[3] * quantity))
    /\ [][op'.name = "calculateItemStickers" =>
            /\ items' = items
            /\ nextId' = nextId
            /\ storage' = storage
            /\ notified' = <<>>
         ]_vars

\* The expansion of a combi entry of quantity 99 was computed: 99 big, 198
\* small fork and 99 small shock labels.
C10_Witness ==
    /\ op.name = "calculateItemStickers"
    /\ ret.item.kitType = "combi"
    /\ ret.item.quantity = JsInt(99)
    /\ ret.val = [big |-> JsInt(99), smallFork |-> JsInt(198), smallShock |-> JsInt(99),
                  total |-> JsInt(396)]

====
